---- MODULE Spec2Model ----
(***************************************************************************)
(* Networking-Wingman ("Recall"): the record store (zustand), the merge    *)
(* engine, the confidence router, the reconciliation hook, the dedup hook  *)
(* and the candidate aggregator of the main page, as a state machine.      *)
(*                                                                         *)
(* JavaScript runs every handler to completion; a handler is one action,   *)
(* and an `await` or a timer splits a function into several actions.       *)
(* Strings are sequences of character codes, so that length, prefix,       *)
(* toLowerCase and concatenation are computed as the code computes them.   *)
(* null and '' are both falsy in every test the code makes on them and are *)
(* both the empty sequence here.                                           *)
(***************************************************************************)
EXTENDS Integers, Sequences, FiniteSets, TLC

VARIABLES
  store,          \* the zustand store (useAppStore)
  deletedCardIds, \* module-level Set of lib/deleted-cards.ts
  recon,          \* refs of useReconciliation + its outstanding call
  dedup,          \* refs of useDeduplication + its outstanding call
  ext,            \* refs of the page effect / useEntityExtraction
  env,            \* uuid counters and the calendar day
  log,            \* proposals handled by the last handler (history variable)
  call            \* argument and result of a pure-function call

vars == <<store, deletedCardIds, recon, dedup, ext, env, log, call>>

----------------------------------------------------------------------------
(* Bounds *)
MaxCards == 3        \* person cards: rows loaded plus uuids handed out
MaxTranscript == 90  \* characters of transcript per session
MaxItems == 4        \* action items on one card
ChunkChars == 30     \* characters one utterance adds to the transcript
MaxReconciles == 1   \* firings of the 30 s reconcile timer
MaxConfidence == 100 \* largest confidence handed to the router
MaxTalk == 120       \* characters of transcript of a session of three persons
MaxRows == 3         \* rows of person_cards a load may find
MaxWords == 3        \* words said after the recall phrase
MaxPeople == 2       \* records in the history that is searched
MaxSayings == 2      \* sayings in one final segment
MaxContacts == 6     \* contacts in one grouping request
MaxSessions == 2     \* listening sessions held one after the other
LongChars == 250     \* characters of one long utterance
MaxLong == 750         \* characters of transcript of a session of long utterances
MaxFinals == 3         \* final results of the transcription in one session
MaxSpeech == 500       \* the same, where the three oracles are at work

(* Program constants *)
AutoApplyAbove == 90
SuggestFrom == 60
ExtractEvery == 30
ExtractMinChars == 15
ReconcileMinChars == 20
ReconcileEvery == 500
SnippetChars == 200
DedupAutoMergeAbove == 90
MatchAtLeast == 15   \* a best score below it commits to no name
SwitchTenths == 13   \* switchThreshold = previousEntry.score * 1.3
CloseGapPercent == 15  \* relativeGap < 0.15
GroupAbove == 5      \* no groups for contacts.length <= 5

----------------------------------------------------------------------------
(* Strings *)
Lower(s) == [i \in 1..Len(s) |-> IF s[i] \in 65..90 THEN s[i] + 32 ELSE s[i]]

RECURSIVE TrimLeft(_)
TrimLeft(s) == IF s # <<>> /\ Head(s) = 32 THEN TrimLeft(Tail(s)) ELSE s

RECURSIVE TrimRight(_)
TrimRight(s) ==
  IF s # <<>> /\ s[Len(s)] = 32 THEN TrimRight(SubSeq(s, 1, Len(s) - 1)) ELSE s

Trim(s) == TrimRight(TrimLeft(s))

Truthy(s) == s # <<>>

\* a || b on strings
Or(a, b) == IF Truthy(a) THEN a ELSE b

\* the texts the collaborators use: names, companies, roles, summaries and
\* action items
Texts ==
  [Al |-> <<65, 108>>, AlBo |-> <<65, 108, 32, 66, 111>>,
   AlCy |-> <<65, 108, 32, 67, 121>>,
   X |-> <<88>>, Y |-> <<89>>, p |-> <<112>>, q |-> <<113>>,
   s |-> <<115>>, t |-> <<116>>,
   Fax |-> <<70, 97, 120>>, fax |-> <<102, 97, 120>>, Zip |-> <<90, 105, 112>>,
   Navi |-> <<78, 97, 118, 105, 32>>]

----------------------------------------------------------------------------
(* Person cards *)
NoCard == [id |-> 0]

NoUrl == [keywords |-> <<>>, company |-> <<>>]

generateLinkedInUrl(name, company) ==
  [keywords |-> name, company |-> IF Truthy(company) THEN company ELSE <<>>]

\* text.slice(-200) of a transcript of `len` characters: the range it covers
Snippet(len) ==
  [from |-> IF len > SnippetChars THEN len - SnippetChars ELSE 0, to |-> len]

NoSnippet == Snippet(0)

NewCard(id, sessionId, day) ==
  [id |-> id, sessionId |-> sessionId, name |-> <<>>, company |-> <<>>,
   role |-> <<>>, category |-> "other", summary |-> <<>>,
   linkedInUrl |-> NoUrl, actionItems |-> <<>>,
   transcriptSnippet |-> NoSnippet,
   createdAt |-> day, isActive |-> TRUE]

AllCards(st) ==
  (IF st.activeCard # NoCard THEN <<st.activeCard>> ELSE <<>>) \o st.historyCards

\* allCards.find(c => c.id === id)
FindCard(cards, id) ==
  IF \E i \in 1..Len(cards) : cards[i].id = id
  THEN cards[CHOOSE i \in 1..Len(cards) :
               cards[i].id = id /\ \A j \in 1..(i - 1) : cards[j].id # id]
  ELSE NoCard

PresentIds(st) == {AllCards(st)[i].id : i \in 1..Len(AllCards(st))}

----------------------------------------------------------------------------
(* A world is the state every handler reads and writes:                    *)
(*   st  the store, del  the deleted-ids set, rec/dd  the hook refs,       *)
(*   env  counters and the day, log  what the running handler did.         *)
World == [st |-> store, del |-> deletedCardIds, rec |-> recon, dd |-> dedup,
          ext |-> ext, env |-> env, log |-> <<>>]

NoReconCall == [on |-> FALSE, activeId |-> 0, tlen |-> 0, ids |-> {}]

\* variant: reconcile() without the test of isReconcilingRef
reconcileUnguarded(w) ==
  LET st == w.st
      Shown(c) == Truthy(c.name)
                  /\ (c.sessionId = st.sessionId \/ c.createdAt = w.env.today)
      allCards == (IF st.activeCard # NoCard THEN <<st.activeCard>> ELSE <<>>)
                  \o SelectSeq(st.historyCards, Shown)
  IN IF ~st.isListening \/ st.sessionId = 0 THEN w
     ELSE IF Len(allCards) = 0 \/ st.currentTranscript < ReconcileMinChars THEN w
     ELSE [w EXCEPT !.rec.isReconciling = TRUE,
                    !.rec.call = [on |-> TRUE, activeId |-> st.activeCard.id,
                                  tlen |-> st.currentTranscript,
                                  ids |-> {allCards[i].id :
                                             i \in 1..Len(allCards)}]]

\* reconcile(), up to its first await
reconcile(w) ==
  LET st == w.st
      Shown(c) == Truthy(c.name)
                  /\ (c.sessionId = st.sessionId \/ c.createdAt = w.env.today)
      allCards == (IF st.activeCard # NoCard THEN <<st.activeCard>> ELSE <<>>)
                  \o SelectSeq(st.historyCards, Shown)
  IN IF ~st.isListening \/ st.sessionId = 0 \/ w.rec.isReconciling THEN w
     ELSE IF Len(allCards) = 0 \/ st.currentTranscript < ReconcileMinChars THEN w
     ELSE [w EXCEPT !.rec.isReconciling = TRUE,
                    !.rec.call = [on |-> TRUE, activeId |-> st.activeCard.id,
                                  tlen |-> st.currentTranscript,
                                  ids |-> {allCards[i].id :
                                             i \in 1..Len(allCards)}]]

\* the store subscriber of useReconciliation
ReconcileSubscriber(w) ==
  LET newChars == w.st.currentTranscript - w.rec.lastCharCount
  IN IF ~w.st.isListening THEN w
     ELSE IF newChars >= ReconcileEvery
       THEN reconcile([w EXCEPT !.rec.timerRef =
                         IF @ = "armed" THEN "cleared" ELSE @])
     ELSE IF newChars > 0 /\ w.rec.timerRef = "null"
       THEN [w EXCEPT !.rec.timerRef = "armed"]
     ELSE w

\* the two store subscribers of useDeduplication; env.deduped (a history
\* variable) tells whether a pass was in flight at the last end of a
\* session, or has been met in flight or started by runDedup since
DedupSubscriber(w) ==
  LET w1 == IF w.dd.prevListening /\ ~w.st.isListening
            THEN [w EXCEPT !.dd.timers = @ + 1,
                           !.env.deduped = w.dd.isDeduping]
            ELSE w
      w2 == [w1 EXCEPT !.dd.prevListening = w.st.isListening]
  IN IF ~w2.dd.hasRunInitial /\ Len(w2.st.historyCards) >= 2
     THEN [w2 EXCEPT !.dd.hasRunInitial = TRUE, !.dd.timers = @ + 1]
     ELSE w2

\* zustand set(): replace the state, then run the subscribers in order
Set(w, st2) == DedupSubscriber(ReconcileSubscriber([w EXCEPT !.st = st2]))

Deactivated(c) == [c EXCEPT !.isActive = FALSE]

moveActiveToHistory(w) ==
  IF w.st.activeCard = NoCard THEN w
  ELSE Set(w, [w.st EXCEPT !.activeCard = NoCard,
                           !.historyCards = <<Deactivated(w.st.activeCard)>> \o @])

\* variant: the outgoing Active Record is put at the end of History
endSessionAtTail(w) ==
  LET st == w.st
  IN Set(w, [st EXCEPT !.isListening = FALSE, !.activeCard = NoCard,
                       !.historyCards =
                          IF st.activeCard # NoCard
                          THEN @ \o <<Deactivated(st.activeCard)>> ELSE @,
                       !.currentTranscript = 0,
                       !.currentCardStartIndex = 0])

endSession(w) ==
  LET st == w.st
  IN Set(w, [st EXCEPT !.isListening = FALSE, !.activeCard = NoCard,
                       !.historyCards =
                          IF st.activeCard # NoCard
                          THEN <<Deactivated(st.activeCard)>> \o @ ELSE @,
                       !.currentTranscript = 0,
                       !.currentCardStartIndex = 0])

\* variant: the outgoing Active Record keeps its active flag
createNewCardStillActive(w) ==
  LET st == w.st
      w1 == [w EXCEPT !.env.nextId = @ + 1]
  IN Set(w1, [st EXCEPT !.activeCard =
                           NewCard(w.env.nextId, st.sessionId, w.env.today),
                        !.historyCards =
                           IF st.activeCard # NoCard
                           THEN <<st.activeCard>> \o @ ELSE @,
                        !.currentCardStartIndex = st.currentTranscript])

createNewCard(w) ==
  LET st == w.st
      w1 == [w EXCEPT !.env.nextId = @ + 1]
  IN Set(w1, [st EXCEPT !.activeCard =
                           NewCard(w.env.nextId, st.sessionId, w.env.today),
                        !.historyCards =
                           IF st.activeCard # NoCard
                           THEN <<Deactivated(st.activeCard)>> \o @ ELSE @,
                        !.currentCardStartIndex = st.currentTranscript])

\* { ...card, ...updates }
Spread(card, updates) ==
  [f \in DOMAIN card |-> IF f \in DOMAIN updates THEN updates[f] ELSE card[f]]

Without(updates, field) ==
  [f \in DOMAIN updates \ {field} |-> updates[f]]

Has(updates, field) == field \in DOMAIN updates /\ Truthy(updates[field])

updateActiveCard(w, updates) ==
  LET activeCard == w.st.activeCard
      c1 == Spread(activeCard, Without(updates, "actionItems"))
      c2 == IF Has(updates, "name") /\ c1.linkedInUrl = NoUrl
            THEN [c1 EXCEPT !.linkedInUrl =
                              generateLinkedInUrl(updates.name, c1.company)]
            ELSE c1
      c3 == IF Has(updates, "company") /\ Truthy(c2.name)
            THEN [c2 EXCEPT !.linkedInUrl =
                              generateLinkedInUrl(c2.name, updates.company)]
            ELSE c2
  IN IF activeCard = NoCard THEN w
     ELSE Set(w, [w.st EXCEPT !.activeCard = c3])

setTranscript(w, len) ==
  LET st == w.st
  IN Set(w, [st EXCEPT !.currentTranscript = len,
                       !.activeCard =
                          IF @ # NoCard
                          THEN [@ EXCEPT !.transcriptSnippet = Snippet(len)]
                          ELSE NoCard])

addActionItem(w, text) ==
  IF w.st.activeCard = NoCard THEN w
  ELSE IF ~Truthy(text) \/ Len(Trim(text)) = 0 THEN w
  ELSE Set(w, [w.st EXCEPT !.activeCard.actionItems = Append(@, Trim(text))])

----------------------------------------------------------------------------
(* Confidence router (lib/reconciliation.ts) *)
\* variant: the auto-apply threshold taken inclusively
routeByConfidenceInclusive(confidence) ==
  IF confidence >= AutoApplyAbove THEN "auto-apply"
  ELSE IF confidence >= SuggestFrom THEN "suggest"
  ELSE "discard"

routeByConfidence(confidence) ==
  IF confidence > AutoApplyAbove THEN "auto-apply"
  ELSE IF confidence >= SuggestFrom THEN "suggest"
  ELSE "discard"

routeUpdate(update) ==
  [update |-> update, action |-> routeByConfidence(update.confidence)]

routeMerge(merge) ==
  [merge |-> merge, action |-> routeByConfidence(merge.confidence)]

----------------------------------------------------------------------------
(* Merge engine (useAppStore.mergeCards) *)
markCardDeleted(w, cardId) == [w EXCEPT !.del = @ \cup {cardId}]

\* `${a}. ${b}`
DotJoin(a, b) == a \o <<46, 32>> \o b

\* variant: a tie of the two name lengths goes to the source
MergedCardTieToSource(targetCard, sourceCard) ==
  LET mergedName ==
        IF Len(targetCard.name) > Len(sourceCard.name)
        THEN Or(targetCard.name, sourceCard.name)
        ELSE Or(sourceCard.name, targetCard.name)
      NotInTarget(si) ==
        Truthy(si)
        /\ ~\E i \in 1..Len(targetCard.actionItems) :
               Truthy(targetCard.actionItems[i])
               /\ Lower(targetCard.actionItems[i]) = Lower(si)
      merged ==
        [targetCard EXCEPT
           !.name = mergedName,
           !.company = Or(targetCard.company, sourceCard.company),
           !.role = Or(targetCard.role, sourceCard.role),
           !.category = IF targetCard.category # "other"
                        THEN targetCard.category ELSE sourceCard.category,
           !.summary = IF Truthy(targetCard.summary) /\ Truthy(sourceCard.summary)
                       THEN DotJoin(targetCard.summary, sourceCard.summary)
                       ELSE Or(targetCard.summary, sourceCard.summary),
           !.linkedInUrl = IF targetCard.linkedInUrl # NoUrl
                           THEN targetCard.linkedInUrl ELSE sourceCard.linkedInUrl,
           !.actionItems = SelectSeq(targetCard.actionItems, Truthy)
                           \o SelectSeq(sourceCard.actionItems, NotInTarget),
           !.transcriptSnippet =
              IF targetCard.transcriptSnippet # NoSnippet
              THEN targetCard.transcriptSnippet ELSE sourceCard.transcriptSnippet]
  IN IF Truthy(merged.name)
     THEN [merged EXCEPT !.linkedInUrl =
                            generateLinkedInUrl(merged.name, merged.company)]
     ELSE merged

MergedCard(targetCard, sourceCard) ==
  LET mergedName ==
        IF Len(targetCard.name) >= Len(sourceCard.name)
        THEN Or(targetCard.name, sourceCard.name)
        ELSE Or(sourceCard.name, targetCard.name)
      NotInTarget(si) ==
        Truthy(si)
        /\ ~\E i \in 1..Len(targetCard.actionItems) :
               Truthy(targetCard.actionItems[i])
               /\ Lower(targetCard.actionItems[i]) = Lower(si)
      merged ==
        [targetCard EXCEPT
           !.name = mergedName,
           !.company = Or(targetCard.company, sourceCard.company),
           !.role = Or(targetCard.role, sourceCard.role),
           !.category = IF targetCard.category # "other"
                        THEN targetCard.category ELSE sourceCard.category,
           !.summary = IF Truthy(targetCard.summary) /\ Truthy(sourceCard.summary)
                       THEN DotJoin(targetCard.summary, sourceCard.summary)
                       ELSE Or(targetCard.summary, sourceCard.summary),
           !.linkedInUrl = IF targetCard.linkedInUrl # NoUrl
                           THEN targetCard.linkedInUrl ELSE sourceCard.linkedInUrl,
           !.actionItems = SelectSeq(targetCard.actionItems, Truthy)
                           \o SelectSeq(sourceCard.actionItems, NotInTarget),
           !.transcriptSnippet =
              IF targetCard.transcriptSnippet # NoSnippet
              THEN targetCard.transcriptSnippet ELSE sourceCard.transcriptSnippet]
  IN IF Truthy(merged.name)
     THEN [merged EXCEPT !.linkedInUrl =
                            generateLinkedInUrl(merged.name, merged.company)]
     ELSE merged

\* historyCards.map(c => c.id === targetCardId ? merged : c)
\*             .filter(c => c.id !== sourceCardId)
ReplaceAndDrop(historyCards, targetCardId, merged, sourceCardId) ==
  LET mapped == [i \in 1..Len(historyCards) |->
                   IF historyCards[i].id = targetCardId THEN merged
                   ELSE historyCards[i]]
      Keep(c) == c.id # sourceCardId
  IN SelectSeq(mapped, Keep)

\* mergeCards() once both records are found: lines 339-385
MergeFound(w, sourceCardId, targetCardId) ==
  LET st == w.st
      sourceCard == FindCard(AllCards(st), sourceCardId)
      targetCard == FindCard(AllCards(st), targetCardId)
      w1 == markCardDeleted(w, sourceCardId)
      merged == MergedCard(targetCard, sourceCard)
      Keep(c) == c.id # sourceCardId
  IN IF st.activeCard # NoCard /\ st.activeCard.id = targetCardId
       THEN Set(w1, [st EXCEPT !.activeCard = merged,
                               !.historyCards = SelectSeq(@, Keep)])
     ELSE IF st.activeCard # NoCard /\ st.activeCard.id = sourceCardId
       THEN Set(w1, [st EXCEPT !.activeCard = NoCard,
                               !.historyCards = ReplaceAndDrop(
                                  @, targetCardId, merged, sourceCardId)])
     ELSE Set(w1, [st EXCEPT !.historyCards = ReplaceAndDrop(
                                  @, targetCardId, merged, sourceCardId)])

\* variant: the source is marked deleted before the records are looked up
mergeCardsMarkFirst(w, sourceCardId, targetCardId) ==
  IF FindCard(AllCards(w.st), sourceCardId) = NoCard
     \/ FindCard(AllCards(w.st), targetCardId) = NoCard
  THEN markCardDeleted(w, sourceCardId)
  ELSE MergeFound(w, sourceCardId, targetCardId)

mergeCards(w, sourceCardId, targetCardId) ==
  IF FindCard(AllCards(w.st), sourceCardId) = NoCard
     \/ FindCard(AllCards(w.st), targetCardId) = NoCard
  THEN w
  ELSE MergeFound(w, sourceCardId, targetCardId)

\* one entry of the log: a proposal, the branch its handler took for it, and
\* whether the store or the deleted-ids set changed while it was handled
Logged(w0, w1, event) ==
  [w1 EXCEPT !.log = Append(@, event @@
     [changed |-> (w1.st # w0.st \/ w1.del # w0.del)])]

----------------------------------------------------------------------------
(* useReconciliation: the part of reconcile() after the oracle answered *)

\* currentHistory.map(card => card.id === cardId ? {...card, ...changes} : card)
UpdateHistory(w, cardId, changes) ==
  Set(w, [w.st EXCEPT !.historyCards =
            [i \in 1..Len(@) |->
               IF @[i].id = cardId THEN Spread(@[i], changes) ELSE @[i]]])

ApplyUpdate(w, update) ==
  LET routed == routeUpdate(update)
      Event(branch) == [op |-> "update", via |-> "reconcile",
                        ids |-> <<update.cardId>>,
                        confidence |-> update.confidence, branch |-> branch]
  IN IF routed.action = "discard" THEN Logged(w, w, Event("continue"))
     ELSE IF w.rec.call.activeId # 0 /\ update.cardId = w.rec.call.activeId
       THEN Logged(w, updateActiveCard(w, update.changes), Event("active"))
     ELSE Logged(w, UpdateHistory(w, update.cardId, update.changes),
                 Event("history"))

ApplyMerge(w, merge) ==
  LET routed == routeMerge(merge)
      Event(branch) == [op |-> "merge", via |-> "reconcile",
                        ids |-> <<merge.sourceCardId, merge.targetCardId>>,
                        confidence |-> merge.confidence, branch |-> branch]
  IN IF routed.action = "discard" THEN Logged(w, w, Event("continue"))
     ELSE Logged(w, mergeCards(w, merge.sourceCardId, merge.targetCardId),
                 Event("mergeCards"))

RECURSIVE ApplyUpdates(_, _)
ApplyUpdates(w, updates) ==
  IF updates = <<>> THEN w
  ELSE ApplyUpdates(ApplyUpdate(w, Head(updates)), Tail(updates))

RECURSIVE ApplyMerges(_, _)
ApplyMerges(w, merges) ==
  IF merges = <<>> THEN w
  ELSE ApplyMerges(ApplyMerge(w, Head(merges)), Tail(merges))

ReconcileFinally(w) ==
  [w EXCEPT !.rec.isReconciling = FALSE, !.rec.call = NoReconCall]

ReconcileResult(w, result) ==
  LET w1 == [w EXCEPT !.rec.lastCharCount = w.rec.call.tlen]
  IN ReconcileFinally(ApplyMerges(ApplyUpdates(w1, result.updates), result.merges))

----------------------------------------------------------------------------
(* useDeduplication *)
NoDedupCall == [phase |-> "idle", namedCount |-> 0, ids |-> {},
                queue |-> <<>>, mergedCardIds |-> {}]

Named(c) == Truthy(c.name)

\* runDedup(), up to its first await
runDedup(w) ==
  LET namedCards == SelectSeq(w.st.historyCards, Named)
  IN IF w.dd.isDeduping THEN [w EXCEPT !.env.deduped = TRUE]
     ELSE IF Len(namedCards) < 2 THEN w
     ELSE IF Len(namedCards) = w.dd.lastDedupCount THEN w
     ELSE [w EXCEPT !.dd.isDeduping = TRUE, !.env.deduped = TRUE,
                    !.dd.call = [NoDedupCall EXCEPT !.phase = "fetch",
                                    !.namedCount = Len(namedCards),
                                    !.ids = {namedCards[i].id :
                                               i \in 1..Len(namedCards)}]]

DedupFinally(w) == [w EXCEPT !.dd.isDeduping = FALSE, !.dd.call = NoDedupCall]

InHistory(st, id) == \E i \in 1..Len(st.historyCards) : st.historyCards[i].id = id

\* the for-loop of runDedup, from the head of the queue up to the next
\* `await new Promise(r => setTimeout(r, 500))` or the end of the loop
RECURSIVE DedupLoop(_)
DedupLoop(w) ==
  IF w.dd.call.queue = <<>> THEN DedupFinally(w)
  ELSE
    LET merge == Head(w.dd.call.queue)
        w1 == [w EXCEPT !.dd.call.queue = Tail(@), !.dd.call.phase = "loop"]
        Event(branch) == [op |-> "merge", via |-> "dedup",
                          ids |-> <<merge.sourceCardId, merge.targetCardId>>,
                          confidence |-> merge.confidence, branch |-> branch]
    IN IF merge.confidence <= DedupAutoMergeAbove
         THEN DedupLoop(Logged(w1, w1, Event("low-confidence")))
       ELSE IF merge.sourceCardId \in w.dd.call.mergedCardIds
               \/ merge.targetCardId \in w.dd.call.mergedCardIds
         THEN DedupLoop(Logged(w1, w1, Event("already-merged")))
       ELSE IF InHistory(w.st, merge.sourceCardId)
               /\ InHistory(w.st, merge.targetCardId)
         THEN Logged(w1,
                mergeCards([w1 EXCEPT !.dd.call.mergedCardIds =
                              @ \cup {merge.sourceCardId, merge.targetCardId}],
                           merge.sourceCardId, merge.targetCardId),
                Event("mergeCards"))
       ELSE DedupLoop(Logged(w1, w1, Event("missing")))

DedupResult(w, result) ==
  DedupLoop([w EXCEPT !.dd.lastDedupCount = w.dd.call.namedCount,
                      !.dd.call.queue = result.merges])

----------------------------------------------------------------------------
(* The page effect "Extract entities when transcript grows significantly"  *)
(* and the handler of its result (the candidate aggregator)                *)
selfNames == {<<110, 97, 118, 105>>}

\* the, a, an, to, and, or, i, my, me, will, ill, i'll, them, their, this,
\* that, over, with, for, on, at, by
stopWords ==
  {<<116, 104, 101>>, <<97>>, <<97, 110>>, <<116, 111>>, <<97, 110, 100>>,
   <<111, 114>>, <<105>>, <<109, 121>>, <<109, 101>>,
   <<119, 105, 108, 108>>, <<105, 108, 108>>, <<105, 39, 108, 108>>,
   <<116, 104, 101, 109>>, <<116, 104, 101, 105, 114>>,
   <<116, 104, 105, 115>>, <<116, 104, 97, 116>>, <<111, 118, 101, 114>>,
   <<119, 105, 116, 104>>, <<102, 111, 114>>, <<111, 110>>, <<97, 116>>,
   <<98, 121>>}

\* text.split(/\s+/) of a trimmed text
RECURSIVE SplitWords(_, _)
SplitWords(s, word) ==
  IF s = <<>> THEN (IF word = <<>> THEN <<>> ELSE <<word>>)
  ELSE IF Head(s) = 32
    THEN (IF word = <<>> THEN <<>> ELSE <<word>>) \o SplitWords(Tail(s), <<>>)
  ELSE SplitWords(Tail(s), Append(word, Head(s)))

\* a.includes(b)
Includes(a, b) ==
  \E i \in 0..(Len(a) - Len(b)) : SubSeq(a, i + 1, i + Len(b)) = b

getKeyWords(text) ==
  LET Key(wd) == wd \notin stopWords /\ Len(wd) > 2
  IN SelectSeq(SplitWords(Trim(Lower(text)), <<>>), Key)

\* activeCard.actionItems.some(existing => ... overlap ...)
FuzzyExists(actionItems, item) ==
  LET newKeyWords == getKeyWords(item)
  IN \E k \in 1..Len(actionItems) :
       /\ Truthy(actionItems[k])
       /\ LET existingKeyWords == getKeyWords(actionItems[k])
              Hit(wd) == \E j \in 1..Len(existingKeyWords) :
                            Includes(existingKeyWords[j], wd)
                            \/ Includes(wd, existingKeyWords[j])
              overlap == SelectSeq(newKeyWords, Hit)
              least == IF Len(newKeyWords) < Len(existingKeyWords)
                       THEN Len(newKeyWords) ELSE Len(existingKeyWords)
          IN 2 * Len(overlap) >= least

isSelf(entities) ==
  Truthy(entities.name) /\ Lower(Trim(entities.name)) \in selfNames

\* the `updates` object a new card gets from a candidate
FirstUpdates(entities) ==
  LET present == {f \in {"name", "company", "role", "summary"} :
                    Truthy(entities[f])}
                 \cup (IF entities.category # "" THEN {"category"} ELSE {})
  IN [f \in present |-> entities[f]]

\* the `updates` object an existing Active Record gets from a candidate
FillUpdates(activeCard, entities) ==
  LET present ==
        (IF Truthy(entities.name) /\ ~Truthy(activeCard.name) /\ ~isSelf(entities)
         THEN {"name"} ELSE {})
        \cup (IF Truthy(entities.company) /\ ~Truthy(activeCard.company)
              THEN {"company"} ELSE {})
        \cup (IF Truthy(entities.role) /\ ~Truthy(activeCard.role)
              THEN {"role"} ELSE {})
        \cup (IF entities.category # "" /\ activeCard.category = "other"
              THEN {"category"} ELSE {})
        \cup (IF Truthy(entities.summary) THEN {"summary"} ELSE {})
  IN [f \in present |-> entities[f]]

RECURSIVE AddItems(_, _)
AddItems(w, items) ==
  IF items = <<>> THEN w
  ELSE AddItems(addActionItem(w, Head(items)), Tail(items))

\* the setTimeout(..., 0) callback after createNewCard()
ApplyDeferred(w, entities) ==
  AddItems(updateActiveCard(w, FirstUpdates(entities)), entities.actionItems)

NoExtractCall == [on |-> FALSE, activeCard |-> NoCard, historyCards |-> <<>>]

\* historyCards.find(c => same session and same normalized name)
ExistingCard(historyCards, sessionId, entities) ==
  LET Same(c) == /\ Truthy(c.name) /\ Truthy(entities.name)
                 /\ c.sessionId = sessionId
                 /\ Trim(Lower(c.name)) = Trim(Lower(entities.name))
      hits == SelectSeq(historyCards, Same)
  IN IF hits = <<>> THEN NoCard ELSE Head(hits)

\* the candidate's fields merged into a History Record (person re-engaged)
MergeIntoHistoryCard(c, entities) ==
  LET Fresh(item) ==
        Truthy(item)
        /\ ~\E i \in 1..Len(c.actionItems) :
               Truthy(c.actionItems[i])
               /\ Lower(c.actionItems[i]) = Lower(item)
  IN [c EXCEPT
        !.company = Or(entities.company, c.company),
        !.role = Or(entities.role, c.role),
        !.category = IF entities.category # "" /\ entities.category # "other"
                     THEN entities.category ELSE c.category,
        !.summary = IF Truthy(entities.summary)
                    THEN (IF Truthy(c.summary)
                          THEN DotJoin(c.summary, entities.summary)
                          ELSE entities.summary)
                    ELSE c.summary,
        !.actionItems = c.actionItems \o SelectSeq(entities.actionItems, Fresh)]

\* forEach over the candidate's action items, checked against the closure's card
RECURSIVE AddFuzzyItems(_, _, _)
AddFuzzyItems(w, activeCard, items) ==
  IF items = <<>> THEN w
  ELSE LET item == Head(items)
           w1 == IF ~Truthy(item) \/ Len(Trim(item)) = 0 THEN w
                 ELSE IF FuzzyExists(activeCard.actionItems, item) THEN w
                 ELSE addActionItem(w, item)
       IN AddFuzzyItems(w1, activeCard, Tail(items))

\* extractEntities(...).then(entities => ...), entities not null
HandleEntities(w, entities) ==
  LET activeCard == w.ext.call.activeCard
      historyCards == w.ext.call.historyCards
      existingCard == ExistingCard(historyCards, w.st.sessionId, entities)
      Deferred(w1) == [w1 EXCEPT !.ext.deferred = Append(@, entities)]
      Forget(w1) == [w1 EXCEPT !.ext.lastTranscriptLength = 0]
      updates == FillUpdates(activeCard, entities)
  IN IF activeCard = NoCard /\ Truthy(entities.name) /\ ~isSelf(entities)
       THEN Deferred(createNewCard(w))
     ELSE IF activeCard = NoCard THEN w
     ELSE IF entities.isNewPerson /\ Truthy(activeCard.name) /\ ~isSelf(entities)
       THEN IF existingCard # NoCard
            THEN LET w1 == Forget(createNewCard(w))
                 IN Set(w1, [w1.st EXCEPT !.historyCards =
                       [i \in 1..Len(@) |->
                          IF @[i].id = existingCard.id
                          THEN MergeIntoHistoryCard(@[i], entities) ELSE @[i]]])
            ELSE Deferred(Forget(createNewCard(w)))
     ELSE AddFuzzyItems(
            IF DOMAIN updates # {} THEN updateActiveCard(w, updates) ELSE w,
            activeCard, entities.actionItems)

\* the effect body, up to the await inside extractEntities
ExtractEffect(w, tooSoon) ==
  LET st == w.st
      transcriptLength ==
        IF st.activeCard # NoCard
        THEN (IF st.currentTranscript > st.currentCardStartIndex
              THEN st.currentTranscript - st.currentCardStartIndex ELSE 0)
        ELSE st.currentTranscript
      w1 == [w EXCEPT !.ext.lastTranscriptLength = transcriptLength]
  IN IF transcriptLength - w.ext.lastTranscriptLength < ExtractEvery THEN w
     ELSE IF ~st.isListening THEN w
     ELSE IF tooSoon \/ w.ext.pending \/ transcriptLength < ExtractMinChars THEN w1
     ELSE [w1 EXCEPT !.ext.pending = TRUE, !.ext.hasExtracted = TRUE,
                     !.ext.call = [on |-> TRUE, activeCard |-> st.activeCard,
                                   historyCards |-> st.historyCards]]

----------------------------------------------------------------------------
(* useAppStore.loadFromDatabase: the client-side dedup of the loaded rows *)

NameKey(c) == Trim(Lower(c.name))

\* variant: a partial-name match needs the same company and the same role
isPartialNameMatchBoth(a, b) ==
  LET nameA == Trim(Lower(a.name))
      nameB == Trim(Lower(b.name))
      shorter == IF Len(nameA) < Len(nameB) THEN nameA ELSE nameB
      longer == IF Len(nameA) < Len(nameB) THEN nameB ELSE nameA
      compA == Trim(Lower(a.company))
      compB == Trim(Lower(b.company))
      roleA == Trim(Lower(a.role))
      roleB == Trim(Lower(b.role))
  IN IF ~Truthy(nameA) \/ ~Truthy(nameB) \/ nameA = nameB THEN FALSE
     ELSE IF ~(Len(longer) > Len(shorter)
               /\ SubSeq(longer, 1, Len(shorter) + 1) = shorter \o <<32>>)
       THEN FALSE
     ELSE /\ Truthy(compA) /\ Truthy(compB) /\ compA = compB
          /\ Truthy(roleA) /\ Truthy(roleB) /\ roleA = roleB

isPartialNameMatch(a, b) ==
  LET nameA == Trim(Lower(a.name))
      nameB == Trim(Lower(b.name))
      shorter == IF Len(nameA) < Len(nameB) THEN nameA ELSE nameB
      longer == IF Len(nameA) < Len(nameB) THEN nameB ELSE nameA
      compA == Trim(Lower(a.company))
      compB == Trim(Lower(b.company))
      roleA == Trim(Lower(a.role))
      roleB == Trim(Lower(b.role))
  IN IF ~Truthy(nameA) \/ ~Truthy(nameB) \/ nameA = nameB THEN FALSE
     ELSE IF ~(Len(longer) > Len(shorter)
               /\ SubSeq(longer, 1, Len(shorter) + 1) = shorter \o <<32>>)
       THEN FALSE
     ELSE IF Truthy(compA) /\ Truthy(compB) /\ compA = compB THEN TRUE
     ELSE Truthy(roleA) /\ Truthy(roleB) /\ roleA = roleB

\* the exact-name candidate: same key, companies and roles compatible
ExactCompatible(card, existing) ==
  LET compA == Trim(Lower(card.company))
      compB == Trim(Lower(existing.company))
      roleA == Trim(Lower(card.role))
      roleB == Trim(Lower(existing.role))
  IN ~(Truthy(compA) /\ Truthy(compB) /\ compA # compB)
     /\ ~(Truthy(roleA) /\ Truthy(roleB) /\ roleA # roleB)

\* least element of a non-empty set of indices
Least(S) == CHOOSE i \in S : \A j \in S : i <= j

\* matchIdx of one loaded card: 0 when there is none
MatchIdx(card, deduped, seenByName) ==
  LET key == NameKey(card)
      exact == {k \in 1..Len(seenByName) :
                  seenByName[k].key = key
                  /\ ExactCompatible(card, deduped[seenByName[k].idx])}
      partial == {i \in 1..Len(deduped) : isPartialNameMatch(card, deduped[i])}
  IN IF exact # {} THEN seenByName[Least(exact)].idx
     ELSE IF partial # {} THEN Least(partial)
     ELSE 0

\* deduped[matchIdx] = { ...existing, ... } of the load-time dedup
LoadMerged(existing, card) ==
  LET NotInExisting(ai) ==
        Truthy(ai)
        /\ ~\E i \in 1..Len(existing.actionItems) :
               Truthy(existing.actionItems[i])
               /\ Lower(existing.actionItems[i]) = Lower(ai)
      m == [existing EXCEPT
              !.name = IF Len(existing.name) >= Len(card.name)
                       THEN existing.name ELSE card.name,
              !.company = Or(existing.company, card.company),
              !.role = Or(existing.role, card.role),
              !.category = IF existing.category # "other"
                           THEN existing.category ELSE card.category,
              !.summary = IF Truthy(existing.summary) /\ Truthy(card.summary)
                          THEN DotJoin(existing.summary, card.summary)
                          ELSE Or(existing.summary, card.summary),
              !.linkedInUrl = IF existing.linkedInUrl # NoUrl
                              THEN existing.linkedInUrl ELSE card.linkedInUrl,
              !.actionItems = existing.actionItems
                              \o SelectSeq(card.actionItems, NotInExisting),
              !.transcriptSnippet =
                 IF existing.transcriptSnippet # NoSnippet
                 THEN existing.transcriptSnippet ELSE card.transcriptSnippet]
  IN IF Truthy(m.name)
     THEN [m EXCEPT !.linkedInUrl = generateLinkedInUrl(m.name, m.company)]
     ELSE m

\* the for-loop over rawCards; acc = [deduped, seenByName, del]
RECURSIVE LoadDedup(_, _)
LoadDedup(rawCards, acc) ==
  IF rawCards = <<>> THEN acc
  ELSE
    LET card == Head(rawCards)
        key == NameKey(card)
        matchIdx == MatchIdx(card, acc.deduped, acc.seenByName)
        Registered(idx) == \E k \in 1..Len(acc.seenByName) :
                              acc.seenByName[k] = [key |-> key, idx |-> idx]
    IN IF ~Truthy(key)
         THEN LoadDedup(Tail(rawCards),
                        [acc EXCEPT !.deduped = Append(@, card)])
       ELSE IF matchIdx # 0
         THEN LoadDedup(Tail(rawCards),
                [deduped |-> [acc.deduped EXCEPT ![matchIdx] =
                                LoadMerged(acc.deduped[matchIdx], card)],
                 seenByName |-> IF Registered(matchIdx) THEN acc.seenByName
                                ELSE Append(acc.seenByName,
                                            [key |-> key, idx |-> matchIdx]),
                 del |-> acc.del \cup {card.id}])
       ELSE LoadDedup(Tail(rawCards),
                [acc EXCEPT !.deduped = Append(@, card),
                            !.seenByName = Append(@,
                               [key |-> key, idx |-> Len(acc.deduped) + 1])])

\* loadFromDatabase() after the queries answered with `rows`
loadFromDatabase(w, rows) ==
  LET acc == LoadDedup(rows, [deduped |-> <<>>, seenByName |-> <<>>,
                              del |-> w.del])
  IN IF rows = <<>> THEN Set(w, [w.st EXCEPT !.historyCards = <<>>])
     ELSE Set([w EXCEPT !.del = acc.del],
              [w.st EXCEPT !.historyCards = acc.deduped])

----------------------------------------------------------------------------
(* What the collaborators may answer *)
Candidate(name, company, role, category, summary, actionItems, isNewPerson) ==
  [name |-> name, company |-> company, role |-> role, category |-> category,
   summary |-> summary, actionItems |-> actionItems, isNewPerson |-> isNewPerson]

\* answers of the Extraction Oracle
Candidates ==
  { Candidate(Texts.AlBo, Texts.X, Texts.p, "vc", Texts.s,
              <<Texts.Fax, Texts.fax>>, TRUE),
    Candidate(Texts.Al, <<>>, <<>>, "", Texts.t, <<Texts.Zip>>, FALSE) }

\* every shape of answer of the Extraction Oracle: no name, the operator's
\* own name or a person's name; all other fields given or none; the
\* new-person flag set or not
CandidateAnswers ==
  Candidates
  \cup {Candidate(n, Texts.X, Texts.p, "founder", Texts.s, <<Texts.Zip>>, b) :
          n \in {<<>>, Texts.Navi, Texts.Al}, b \in BOOLEAN}
  \cup {Candidate(n, <<>>, <<>>, "", <<>>, <<>>, b) :
          n \in {<<>>, Texts.Navi, Texts.Al}, b \in BOOLEAN}

Row(id, name, company, role, category, summary, actionItems, day) ==
  [id |-> id, sessionId |-> 1, name |-> name, company |-> company,
   role |-> role, category |-> category, summary |-> summary,
   linkedInUrl |-> generateLinkedInUrl(name, company),
   actionItems |-> actionItems, transcriptSnippet |-> NoSnippet,
   createdAt |-> day, isActive |-> FALSE]

\* what the person_cards table holds when the page is opened: one person
\* met in an earlier session
Database ==
  << Row(1, Texts.AlCy, Texts.Y, Texts.q, "other", Texts.t,
         <<Texts.fax, Texts.Zip>>, 1) >>

Confidences == {SuggestFrom - 1, AutoApplyAbove, AutoApplyAbove + 1}

\* ids an oracle may name: those of the records it was sent, and one of no
\* record
NamedIds(sent) == sent \cup {env.nextId}

Changes == {[company |-> Texts.Y, category |-> "founder"]}

UpdateProposals(sent) ==
  [cardId : NamedIds(sent), changes : Changes, confidence : Confidences]

MergeProposals(sent) ==
  [sourceCardId : NamedIds(sent), targetCardId : NamedIds(sent),
   confidence : Confidences]

\* confident merges of one record that was sent into another
ConfidentMerges(sent) ==
  {m \in MergeProposals(sent) : /\ m.confidence > AutoApplyAbove
                                /\ m.sourceCardId # m.targetCardId
                                /\ m.sourceCardId \in sent
                                /\ m.targetCardId \in sent}

\* no merge, one merge of any confidence, or two confident merges of two
\* records into a third
MergeBatches(sent) ==
  {<<>>} \cup {<<m>> : m \in MergeProposals(sent)}
         \cup {b \in ConfidentMerges(sent) \X ConfidentMerges(sent) :
                 /\ b[1].targetCardId = b[2].targetCardId
                 /\ b[1].sourceCardId # b[2].sourceCardId}

\* answers of the Identity Oracle to /api/reconcile
ReconcileResults ==
  {[updates |-> <<>>, merges |-> b] : b \in MergeBatches(recon.call.ids)}
  \cup {[updates |-> <<u>>, merges |-> <<>>] :
          u \in UpdateProposals(recon.call.ids)}

\* answers of the Identity Oracle to /api/dedup
DedupResults == {[merges |-> b] : b \in MergeBatches(dedup.call.ids)}

----------------------------------------------------------------------------
(* The state machine: the page is opened by a signed-in user, the history  *)
(* is loaded, and one listening session is held.                           *)
InitStore ==
  [isListening |-> FALSE, sessionId |-> 0, activeCard |-> NoCard,
   historyCards |-> <<>>, currentTranscript |-> 0, currentCardStartIndex |-> 0]

InitRecon ==
  [lastCharCount |-> 0, isReconciling |-> FALSE, timerRef |-> "null",
   call |-> NoReconCall]

InitDedup ==
  [isDeduping |-> FALSE, lastDedupCount |-> 0, prevListening |-> FALSE,
   hasRunInitial |-> FALSE, timers |-> 0, call |-> NoDedupCall]

InitExt ==
  [lastTranscriptLength |-> 0, pending |-> FALSE, hasExtracted |-> FALSE,
   call |-> NoExtractCall, deferred |-> <<>>]

InitEnv ==
  [nextId |-> Len(Database) + 1, nextSession |-> 2, today |-> 1,
   phase |-> "closed", heard |-> 0, reconciles |-> 0, deduped |-> FALSE]

NoCall == [fn |-> "none"]

\* the page as opened: the stores as constructed, then loadFromDatabase()
Opened ==
  loadFromDatabase([st |-> InitStore, del |-> {}, rec |-> InitRecon,
                    dd |-> InitDedup, ext |-> InitExt, env |-> InitEnv,
                    log |-> <<>>], Database)

Init ==
  /\ store = Opened.st
  /\ deletedCardIds = Opened.del
  /\ recon = Opened.rec
  /\ dedup = Opened.dd
  /\ ext = Opened.ext
  /\ env = Opened.env
  /\ log = <<>>
  /\ call = NoCall

\* the model's bounds on what a handler may leave behind
Bounded(w) ==
  /\ w.env.nextId <= MaxCards + 1
  /\ \A i \in 1..Len(AllCards(w.st)) :
        Len(AllCards(w.st)[i].actionItems) <= MaxItems

Commit(w) ==
  /\ Bounded(w)
  /\ store' = w.st
  /\ deletedCardIds' = w.del
  /\ recon' = w.rec
  /\ dedup' = w.dd
  /\ ext' = w.ext
  /\ env' = w.env
  /\ log' = w.log
  /\ UNCHANGED call

\* handleStartSession, up to the await inside startSession()
StartSession ==
  /\ env.phase = "closed"
  /\ Commit(Set([World EXCEPT !.env.phase = "inserting"],
                [store EXCEPT !.isListening = TRUE]))

\* startSession() after the insert answered (a row id, or the local fallback)
SessionCreated ==
  /\ env.phase = "inserting"
  /\ Commit(Set([World EXCEPT !.env.phase = "connecting",
                              !.env.nextSession = @ + 1],
                [store EXCEPT !.sessionId = env.nextSession]))

\* connectTranscription() and startCapture() succeeded
Connected ==
  /\ env.phase = "connecting"
  /\ Commit([World EXCEPT !.env.phase = "live"])

\* handleStartSession's catch: endSession()
ConnectFailed ==
  /\ env.phase = "connecting"
  /\ Commit(endSession([World EXCEPT !.env.phase = "ended", !.env.heard = 0]))

\* handleEndSession
EndSession ==
  /\ env.phase = "live"
  /\ Commit(endSession([World EXCEPT !.env.phase = "ended", !.env.heard = 0]))

\* handleTranscript(text, true): the hook's transcript plus one final
\* utterance of `chars` characters, up to `most` characters in all
Said(chars, most) ==
  /\ env.phase = "live"
  /\ env.heard + chars <= most
  /\ Commit(setTranscript([World EXCEPT !.env.heard = @ + chars],
                          env.heard + chars))

Heard(most) == Said(ChunkChars, most)

Transcript == Heard(MaxTranscript)

\* the page effect runs (the transcript of the current person grew)
ExtractTrigger ==
  \E tooSoon \in BOOLEAN :
    /\ tooSoon => ext.hasExtracted
    /\ ExtractEffect(World, tooSoon).ext # ext
    /\ Commit(ExtractEffect(World, tooSoon))

\* variant: pendingRef is cleared on the way of an answer only, and the
\* early returns leave it set
ExtractReturn(w) == [w EXCEPT !.ext.call = NoExtractCall]

ExtractFinally(w) == [w EXCEPT !.ext.pending = FALSE, !.ext.call = NoExtractCall]

\* the Extraction Oracle answered with a candidate
ExtractDone ==
  /\ ext.call.on
  /\ \E entities \in Candidates :
       Commit(ExtractFinally(HandleEntities(World, entities)))

\* the Extraction Oracle failed or answered nothing usable: entities = null
ExtractNull ==
  /\ ext.call.on
  /\ Commit(ExtractFinally(World))

\* a setTimeout(..., 0) callback queued by the candidate handler
DeferredApply ==
  /\ ext.deferred # <<>>
  /\ Commit(ApplyDeferred([World EXCEPT !.ext.deferred = Tail(@)],
                          Head(ext.deferred)))

\* the 30 s fallback timer of useReconciliation
ReconcileTimer ==
  /\ recon.timerRef = "armed"
  /\ env.reconciles < MaxReconciles
  /\ Commit(reconcile([World EXCEPT !.rec.timerRef = "null",
                                     !.env.reconciles = @ + 1]))

\* /api/reconcile answered
ReconcileDone ==
  /\ recon.call.on
  /\ \E result \in ReconcileResults : Commit(ReconcileResult(World, result))

\* /api/reconcile failed (status not ok, or the fetch threw)
ReconcileFailed ==
  /\ recon.call.on
  /\ Commit(ReconcileFinally(World))

\* a setTimeout(runDedup, ...) fires
DedupTimer ==
  /\ dedup.timers > 0
  /\ Commit(runDedup([World EXCEPT !.dd.timers = @ - 1]))

\* /api/dedup answered
DedupDone ==
  /\ dedup.call.phase = "fetch"
  /\ \E result \in DedupResults : Commit(DedupResult(World, result))

\* /api/dedup failed
DedupFailed ==
  /\ dedup.call.phase = "fetch"
  /\ Commit(DedupFinally(World))

\* the 500 ms pause after a merge of the dedup loop is over
DedupResume ==
  /\ dedup.call.phase = "loop"
  /\ Commit(DedupLoop(World))

Next ==
  \/ StartSession
  \/ SessionCreated
  \/ Connected
  \/ ConnectFailed
  \/ EndSession
  \/ Transcript
  \/ ExtractTrigger
  \/ ExtractDone
  \/ ExtractNull
  \/ DeferredApply
  \/ ReconcileTimer
  \/ ReconcileDone
  \/ ReconcileFailed
  \/ DedupTimer
  \/ DedupDone
  \/ DedupFailed
  \/ DedupResume

Spec == Init /\ [][Next]_vars


----------------------------------------------------------------------------
(* The confidence router on its own: every confidence is routed, as an     *)
(* update and as a merge.                                                  *)
Routed(fn, confidence, action) ==
  /\ call' = [fn |-> fn, confidence |-> confidence, action |-> action]
  /\ UNCHANGED <<store, deletedCardIds, recon, dedup, ext, env, log>>

CallRouteByConfidence ==
  \E c \in 0..MaxConfidence :
    Routed("routeByConfidence", c, routeByConfidence(c))

CallRouteUpdate ==
  \E c \in 0..MaxConfidence, changes \in Changes :
    Routed("routeUpdate", c,
           routeUpdate([cardId |-> 1, changes |-> changes,
                        confidence |-> c]).action)

CallRouteMerge ==
  \E c \in 0..MaxConfidence :
    Routed("routeMerge", c,
           routeMerge([sourceCardId |-> 1, targetCardId |-> 2,
                       confidence |-> c]).action)

NextRoute ==
  \/ CallRouteByConfidence
  \/ CallRouteUpdate
  \/ CallRouteMerge

SpecRoute == Init /\ [][NextRoute]_vars

----------------------------------------------------------------------------
(* The candidate aggregator on its own: a longer session, in which the     *)
(* Identity Oracle is never asked, so that a third person can be heard.    *)
TalkTranscript == Heard(MaxTalk)

NextTalk ==
  \/ StartSession
  \/ SessionCreated
  \/ Connected
  \/ ConnectFailed
  \/ EndSession
  \/ TalkTranscript
  \/ ExtractTrigger
  \/ ExtractDone
  \/ ExtractNull
  \/ DeferredApply

SpecTalk == Init /\ [][NextTalk]_vars

\* the same session when the page effect is run whenever the transcript has
\* grown enough for it: nothing is assumed of the oracle, of the services or
\* of the speakers
SpecUnanswered == SpecTalk /\ WF_vars(ExtractTrigger)

----------------------------------------------------------------------------
(* Sessions held one after the other, of long utterances: the user ends a  *)
(* session and starts the next one on the same page. Only the Identity     *)
(* Oracle of the reconciliation is asked.                                  *)

\* handleStartSession (or handleRetry) after a session has ended
StartAgain ==
  /\ env.phase = "ended"
  /\ env.nextSession <= MaxSessions + 1
  /\ Commit(Set([World EXCEPT !.env.phase = "inserting",
                              !.env.reconciles = 0],
                [store EXCEPT !.isListening = TRUE]))

Monologue == Said(LongChars, MaxLong)

NextLong ==
  \/ StartSession
  \/ SessionCreated
  \/ Connected
  \/ ConnectFailed
  \/ EndSession
  \/ StartAgain
  \/ Monologue
  \/ ReconcileTimer
  \/ ReconcileDone
  \/ ReconcileFailed

SpecLong == Init /\ [][NextLong]_vars

\* sessions held one after the other, of short utterances: the Extraction
\* Oracle and the dedup are asked, the reconciliation is not
NextSessions ==
  \/ StartSession
  \/ SessionCreated
  \/ Connected
  \/ ConnectFailed
  \/ EndSession
  \/ StartAgain
  \/ Transcript
  \/ ExtractTrigger
  \/ ExtractDone
  \/ ExtractNull
  \/ DeferredApply
  \/ DedupTimer
  \/ DedupDone
  \/ DedupFailed
  \/ DedupResume

SpecSessions == Init /\ [][NextSessions]_vars

\* one session of long utterances with the three oracles at work: the
\* triggers of each kind arrive while a call of that kind is in flight
Speech == Said(LongChars, MaxSpeech)

NextCalls ==
  \/ StartSession
  \/ SessionCreated
  \/ Connected
  \/ ConnectFailed
  \/ EndSession
  \/ Speech
  \/ ExtractTrigger
  \/ ExtractDone
  \/ ExtractNull
  \/ DeferredApply
  \/ ReconcileTimer
  \/ ReconcileDone
  \/ ReconcileFailed
  \/ DedupTimer
  \/ DedupDone
  \/ DedupFailed
  \/ DedupResume

SpecCalls == Init /\ [][NextCalls]_vars

\* the page as mounted: loadFromDatabase() has sent its query and the
\* buttons of the page are live before the rows arrive
LoadPending == [fn |-> "loadFromDatabase"]

InitReload ==
  /\ store = InitStore
  /\ deletedCardIds = {}
  /\ recon = InitRecon
  /\ dedup = InitDedup
  /\ ext = InitExt
  /\ env = InitEnv
  /\ log = <<>>
  /\ call = LoadPending

\* the queries of loadFromDatabase() answered with the rows of the database
Loaded ==
  /\ call = LoadPending
  /\ LET w == loadFromDatabase(World, Database)
     IN /\ Bounded(w)
        /\ store' = w.st
        /\ deletedCardIds' = w.del
        /\ recon' = w.rec
        /\ dedup' = w.dd
        /\ ext' = w.ext
        /\ env' = w.env
        /\ log' = w.log
        /\ call' = NoCall

NextReload ==
  \/ Loaded
  \/ StartSession
  \/ SessionCreated
  \/ Connected
  \/ ConnectFailed
  \/ EndSession
  \/ Transcript
  \/ ExtractTrigger
  \/ ExtractDone
  \/ ExtractNull
  \/ DeferredApply
  \/ DedupTimer
  \/ DedupDone
  \/ DedupFailed
  \/ DedupResume

SpecReload == InitReload /\ [][NextReload]_vars

\* the Identity Oracle is asked for `additional action items that were
\* missed` too: changes that carry a list of action items
ItemChanges == {[actionItems |-> <<Texts.Zip>>]}

\* /api/reconcile answered with one update, of fields or of action items
ReconcileUpdated ==
  /\ recon.call.on
  /\ \E u \in [cardId : NamedIds(recon.call.ids),
               changes : Changes \cup ItemChanges,
               confidence : Confidences] :
       Commit(ReconcileResult(World, [updates |-> <<u>>, merges |-> <<>>]))

NextUpdates ==
  \/ StartSession
  \/ SessionCreated
  \/ Connected
  \/ ConnectFailed
  \/ EndSession
  \/ Transcript
  \/ ExtractTrigger
  \/ ExtractDone
  \/ ExtractNull
  \/ DeferredApply
  \/ ReconcileTimer
  \/ ReconcileUpdated
  \/ ReconcileFailed

SpecUpdates == Init /\ [][NextUpdates]_vars

----------------------------------------------------------------------------
(* loadFromDatabase on its own: the page is opened on any table of up to   *)
(* MaxRows named rows, and the query is answered.                          *)
RowProfiles ==
  [name : {Texts.Al, Texts.AlBo}, company : {<<>>, Texts.X, Texts.Y},
   role : {<<>>, Texts.p, Texts.q}]

\* the rows of a table, newest first; the row at position i has id i
RowsOf(profiles) ==
  [i \in 1..Len(profiles) |->
     Row(i, profiles[i].name, profiles[i].company, profiles[i].role,
         "other", Texts.t, <<>>, 1)]

InitLoad ==
  /\ store = InitStore
  /\ deletedCardIds = {}
  /\ recon = InitRecon
  /\ dedup = InitDedup
  /\ ext = InitExt
  /\ env = InitEnv
  /\ log = <<>>
  /\ \E n \in 1..MaxRows : \E profiles \in [1..n -> RowProfiles] :
       call = [fn |-> "query", rows |-> RowsOf(profiles)]

\* the person_cards query of loadFromDatabase() answered
QueryAnswered ==
  /\ call.fn = "query"
  /\ LET w == loadFromDatabase(World, call.rows)
     IN /\ store' = w.st
        /\ deletedCardIds' = w.del
        /\ recon' = w.rec
        /\ dedup' = w.dd
        /\ ext' = w.ext
        /\ env' = w.env
        /\ log' = w.log
  /\ call' = [call EXCEPT !.fn = "loaded"]

NextLoad == QueryAnswered

SpecLoad == InitLoad /\ [][NextLoad]_vars

----------------------------------------------------------------------------
(* The Query Resolver (lib/voice-query-detector.ts) and the recall branch   *)
(* of the page's handleTranscript                                           *)
\* STOP_WORDS: 'the', 'that', 'this', 'from', 'who', 'was', ... 'company'
STOP_WORDS ==
  {<<116, 104, 101>>, <<116, 104, 97, 116>>, <<116, 104, 105, 115>>,
   <<102, 114, 111, 109>>, <<119, 104, 111>>, <<119, 97, 115>>,
   <<119, 101, 114, 101>>, <<119, 105, 116, 104>>, <<97, 98, 111, 117, 116>>,
   <<112, 101, 114, 115, 111, 110>>, <<103, 117, 121>>,
   <<119, 111, 109, 97, 110>>, <<109, 97, 110>>, <<108, 97, 100, 121>>,
   <<111, 110, 101>>, <<116, 104, 101, 121>>, <<116, 104, 101, 105, 114>>,
   <<116, 104, 101, 109>>, <<100, 111, 101, 115>>, <<100, 105, 100>>,
   <<104, 97, 100>>, <<104, 97, 115>>, <<104, 97, 118, 101>>,
   <<98, 101, 101, 110>>, <<98, 101, 105, 110, 103>>,
   <<119, 111, 114, 107, 115>>, <<119, 111, 114, 107, 105, 110, 103>>,
   <<119, 111, 114, 107, 101, 100>>, <<108, 105, 107, 101>>,
   <<115, 97, 105, 100>>, <<116, 111, 108, 100>>, <<109, 101, 116>>,
   <<116, 97, 108, 107, 101, 100>>, <<115, 112, 111, 107, 101>>,
   <<107, 110, 111, 119>>, <<116, 104, 105, 110, 107>>,
   <<114, 101, 109, 101, 109, 98, 101, 114>>, <<114, 101, 99, 97, 108, 108>>,
   <<115, 111, 109, 101, 98, 111, 100, 121>>,
   <<115, 111, 109, 101, 111, 110, 101>>,
   <<115, 111, 109, 101, 116, 104, 105, 110, 103>>, <<115, 111, 109, 101>>,
   <<97, 110, 121>>, <<97, 110, 100>>, <<98, 117, 116>>,
   <<97, 108, 115, 111>>, <<110, 111, 116>>, <<119, 104, 97, 116>>,
   <<119, 104, 105, 99, 104>>, <<119, 104, 101, 114, 101>>,
   <<119, 104, 101, 110>>, <<99, 97, 110>>, <<99, 111, 117, 108, 100>>,
   <<119, 111, 117, 108, 100>>, <<115, 104, 111, 117, 108, 100>>,
   <<119, 105, 108, 108>>, <<115, 104, 97, 108, 108>>, <<104, 105, 115>>,
   <<104, 101, 114>>, <<105, 116, 115>>, <<111, 117, 114>>,
   <<121, 111, 117, 114>>, <<110, 97, 109, 101>>,
   <<99, 111, 109, 112, 97, 110, 121>>}

\* CATEGORY_KEYWORDS: the words that speak of each category
CATEGORY_KEYWORDS ==
  [founder |->
     {<<102, 111, 117, 110, 100, 101, 114>>,
      <<102, 111, 117, 110, 100, 101, 100>>,
      <<115, 116, 97, 114, 116, 101, 100>>,
      <<115, 116, 97, 114, 116, 117, 112>>, <<99, 101, 111>>,
      <<101, 110, 116, 114, 101, 112, 114, 101, 110, 101, 117, 114>>,
      <<99, 111, 102, 111, 117, 110, 100, 101, 114>>},
   vc |->
     {<<105, 110, 118, 101, 115, 116, 111, 114>>, <<118, 99>>,
      <<118, 101, 110, 116, 117, 114, 101>>, <<102, 117, 110, 100>>,
      <<99, 97, 112, 105, 116, 97, 108>>, <<97, 110, 103, 101, 108>>,
      <<105, 110, 118, 101, 115, 116>>,
      <<105, 110, 118, 101, 115, 116, 105, 110, 103>>,
      <<112, 97, 114, 116, 110, 101, 114>>},
   developer |->
     {<<100, 101, 118, 101, 108, 111, 112, 101, 114>>,
      <<101, 110, 103, 105, 110, 101, 101, 114>>,
      <<112, 114, 111, 103, 114, 97, 109, 109, 101, 114>>,
      <<99, 111, 100, 101, 114>>, <<116, 101, 99, 104>>,
      <<115, 111, 102, 116, 119, 97, 114, 101>>,
      <<98, 97, 99, 107, 101, 110, 100>>,
      <<102, 114, 111, 110, 116, 101, 110, 100>>,
      <<102, 117, 108, 108, 115, 116, 97, 99, 107>>},
   designer |->
     {<<100, 101, 115, 105, 103, 110, 101, 114>>,
      <<100, 101, 115, 105, 103, 110>>,
      <<99, 114, 101, 97, 116, 105, 118, 101>>, <<117, 120>>, <<117, 105>>,
      <<102, 105, 103, 109, 97>>, <<118, 105, 115, 117, 97, 108>>,
      <<103, 114, 97, 112, 104, 105, 99>>},
   student |->
     {<<115, 116, 117, 100, 101, 110, 116>>,
      <<105, 110, 116, 101, 114, 110>>,
      <<117, 110, 105, 118, 101, 114, 115, 105, 116, 121>>,
      <<99, 111, 108, 108, 101, 103, 101>>, <<115, 99, 104, 111, 111, 108>>,
      <<103, 114, 97, 100>>, <<112, 104, 100>>,
      <<109, 97, 115, 116, 101, 114, 115>>},
   executive |->
     {<<101, 120, 101, 99, 117, 116, 105, 118, 101>>,
      <<100, 105, 114, 101, 99, 116, 111, 114>>, <<118, 112>>,
      <<99, 104, 105, 101, 102>>, <<104, 101, 97, 100>>,
      <<112, 114, 101, 115, 105, 100, 101, 110, 116>>,
      <<111, 102, 102, 105, 99, 101, 114>>, <<99, 116, 111>>,
      <<99, 102, 111>>, <<99, 111, 111>>}]

\* the words of the spoken descriptions and of the records they are scored
\* against: 'ann', 'bob', 'acme', 'founder', 'fintech', 'golf', and the
\* names 'Ann Lee' and 'Ann Kim'
VoiceTexts ==
  [ann |-> <<97, 110, 110>>, bob |-> <<98, 111, 98>>,
   acme |-> <<97, 99, 109, 101>>,
   founder |-> <<102, 111, 117, 110, 100, 101, 114>>,
   fintech |-> <<102, 105, 110, 116, 101, 99, 104>>,
   golf |-> <<103, 111, 108, 102>>,
   AnnLee |-> <<65, 110, 110, 32, 76, 101, 101>>,
   AnnKim |-> <<65, 110, 110, 32, 75, 105, 109>>, Bob |-> <<66, 111, 98>>,
   Acme |-> <<65, 99, 109, 101>>]

\* a.startsWith(b)
StartsWith(a, b) == Len(a) >= Len(b) /\ SubSeq(a, 1, Len(b)) = b

\* words.includes(w)
InWords(words, w) == \E i \in 1..Len(words) : words[i] = w

RECURSIVE SpaceJoin(_)
SpaceJoin(texts) ==
  IF texts = <<>> THEN <<>>
  ELSE IF Len(texts) = 1 THEN texts[1]
  ELSE texts[1] \o <<32>> \o SpaceJoin(Tail(texts))

\* text.toLowerCase().split(/\s+/).filter(...)
extractMeaningfulWords(text) ==
  LET Meaningful(w) == Len(w) > 2 /\ w \notin STOP_WORDS
  IN SelectSeq(SplitWords(Lower(text), <<>>), Meaningful)

Least2(a, b) == IF a < b THEN a ELSE b

\* the score of one card: the body of the loop of scoreCardsAgainstQuery
CardScore(card, desc, words) ==
  LET cardName == Lower(card.name)
      cardCompany == Lower(card.company)
      cardRole == Lower(card.role)
      cardSummary == Lower(card.summary)
      Longer2(p) == Len(p) > 2
      Longer3(p) == Len(p) > 3
      nameParts == SelectSeq(SplitWords(cardName, <<>>), Longer2)
      NameHit(part) == InWords(words, part)
      nameScore ==
        IF Truthy(cardName) /\ Includes(desc, cardName) THEN 100
        ELSE 50 * Len(SelectSeq(nameParts, NameHit))
      companyWords == SelectSeq(SplitWords(cardCompany, <<>>), Longer3)
      CompanyHit(cw) ==
        \E i \in 1..Len(words) :
          StartsWith(cw, words[i]) \/ StartsWith(words[i], cw)
      companyScore ==
        IF ~Truthy(cardCompany) THEN 0
        ELSE IF Includes(desc, cardCompany) THEN 40
        ELSE 25 * Len(SelectSeq(companyWords, CompanyHit))
      roleWords == SelectSeq(SplitWords(cardRole, <<>>), Longer3)
      RoleHit(rw) ==
        \E i \in 1..Len(words) :
          Includes(rw, words[i]) \/ Includes(words[i], rw)
      roleScore ==
        IF ~Truthy(cardRole) THEN 0
        ELSE IF Includes(desc, cardRole) THEN 30
        ELSE 20 * Len(SelectSeq(roleWords, RoleHit))
      categoryScore ==
        IF /\ card.category \in DOMAIN CATEGORY_KEYWORDS
           /\ \E i \in 1..Len(words) :
                words[i] \in CATEGORY_KEYWORDS[card.category]
        THEN 15 ELSE 0
      InSummary(w) == Len(w) > 3 /\ Includes(cardSummary, w)
      summaryScore ==
        IF ~Truthy(cardSummary) THEN 0
        ELSE Least2(25, 5 * Len(SelectSeq(words, InSummary)))
      allActions == Lower(SpaceJoin(card.actionItems))
      InActions(w) == Len(w) > 3 /\ Includes(allActions, w)
      actionScore ==
        IF card.actionItems = <<>> THEN 0
        ELSE Least2(16, 8 * Len(SelectSeq(words, InActions)))
  IN nameScore + companyScore + roleScore + categoryScore + summaryScore
       + actionScore

\* results.sort((a, b) => b.score - a.score): the sort is stable
RECURSIVE SortByScore(_)
SortByScore(results) ==
  IF results = <<>> THEN <<>>
  ELSE LET top == CHOOSE i \in 1..Len(results) :
                    /\ \A j \in 1..Len(results) :
                         results[j].score <= results[i].score
                    /\ \A j \in 1..(i - 1) :
                         results[j].score < results[i].score
           rest == [j \in 1..(Len(results) - 1) |->
                      IF j < top THEN results[j] ELSE results[j + 1]]
       IN <<results[top]>> \o SortByScore(rest)

scoreCardsAgainstQuery(fullDescription, cards) ==
  LET desc == Trim(Lower(fullDescription))
      words == extractMeaningfulWords(fullDescription)
      Scored(card) == [card |-> card, score |-> CardScore(card, desc, words)]
      Counts(card) == Truthy(card.name) /\ CardScore(card, desc, words) > 0
      kept == SelectSeq(cards, Counts)
  IN IF ~Truthy(fullDescription) \/ cards = <<>> THEN <<>>
     ELSE IF words = <<>> /\ Len(desc) < 4 THEN <<>>
     ELSE SortByScore([i \in 1..Len(kept) |-> Scored(kept[i])])

\* variant: any best score commits to a name
resolveVoiceQueryToNameAnyScore(fullDescription, cards, previousMatchName) ==
  LET scored == scoreCardsAgainstQuery(fullDescription, cards)
  IN IF scored = <<>> THEN <<>> ELSE scored[1].card.name

\* the name returned, <<>> for null
resolveVoiceQueryToName(fullDescription, cards, previousMatchName) ==
  LET scored == scoreCardsAgainstQuery(fullDescription, cards)
      best == scored[1]
      Previous(i) == scored[i].card.name = previousMatchName
      found == \E i \in 1..Len(scored) : Previous(i)
      previousEntry ==
        scored[CHOOSE i \in 1..Len(scored) :
                 Previous(i) /\ \A j \in 1..(i - 1) : ~Previous(j)]
  IN IF scored = <<>> THEN <<>>
     ELSE IF best.score < MatchAtLeast THEN <<>>
     ELSE IF Truthy(previousMatchName) /\ best.card.name # previousMatchName
       THEN IF found /\ 10 * best.score < SwitchTenths * previousEntry.score
              THEN previousMatchName
            ELSE IF /\ Len(scored) > 1
                    /\ 100 * (best.score - scored[2].score)
                         < CloseGapPercent * best.score
                    /\ scored[2].card.name = previousMatchName
              THEN previousMatchName
            ELSE best.card.name
     ELSE best.card.name

\* the people the history may hold
People ==
  { [name |-> VoiceTexts.AnnLee, company |-> VoiceTexts.Acme, role |-> <<>>,
     category |-> "other", summary |-> <<>>, actionItems |-> <<>>],
    [name |-> VoiceTexts.Bob, company |-> <<>>, role |-> VoiceTexts.founder,
     category |-> "founder", summary |-> VoiceTexts.golf,
     actionItems |-> <<>>],
    [name |-> VoiceTexts.AnnKim, company |-> <<>>, role |-> <<>>,
     category |-> "founder", summary |-> <<>>,
     actionItems |-> <<VoiceTexts.golf>>] }

\* the words a description is made of
Vocabulary ==
  {VoiceTexts.ann, VoiceTexts.bob, VoiceTexts.acme, VoiceTexts.founder,
   VoiceTexts.fintech, VoiceTexts.golf}

\* nothing has been said after a recall phrase, nothing is shown
NoQuery ==
  [fn |-> "idle", said |-> <<>>, voiceQueryText |-> <<>>,
   voiceMatch |-> <<>>, result |-> <<>>]

\* the page is open on a history of up to MaxPeople different people
InitQuery ==
  /\ \E n \in 0..MaxPeople : \E people \in [1..n -> People] :
       /\ \A i, j \in 1..n : i # j => people[i] # people[j]
       /\ store = [InitStore EXCEPT !.historyCards =
                     [i \in 1..n |->
                        Row(i, people[i].name, people[i].company,
                            people[i].role, people[i].category,
                            people[i].summary, people[i].actionItems, 1)]]
  /\ deletedCardIds = {}
  /\ recon = InitRecon
  /\ dedup = InitDedup
  /\ ext = InitExt
  /\ env = InitEnv
  /\ log = <<>>
  /\ call = NoQuery

\* handleTranscript with a final text that holds a recall phrase, while no
\* card is active: the query text is what the transcript holds after the
\* phrase, so it grows by what was said since the last final text (a word)
VoiceQuery ==
  /\ store.activeCard = NoCard
  /\ \E more \in Vocabulary :
       LET queryText == IF call.said = <<>> THEN more
                        ELSE call.said \o <<32>> \o more
           matchedName ==
             resolveVoiceQueryToName(queryText, store.historyCards, <<>>)
       IN /\ Len(SplitWords(queryText, <<>>)) <= MaxWords
          /\ call' = [fn |-> "recall", said |-> queryText,
                      voiceQueryText |-> queryText,
                      voiceMatch |-> IF Truthy(matchedName) THEN matchedName
                                     ELSE call.voiceMatch,
                      result |-> matchedName]
  /\ UNCHANGED <<store, deletedCardIds, recon, dedup, ext, env, log>>

\* the timer of 3 s that ends the display of the result
VoiceQueryTimer ==
  /\ call.fn = "recall"
  /\ call' = [call EXCEPT !.fn = "idle", !.voiceQueryText = <<>>,
                          !.voiceMatch = <<>>, !.result = <<>>]
  /\ UNCHANGED <<store, deletedCardIds, recon, dedup, ext, env, log>>

NextQuery == VoiceQuery \/ VoiceQueryTimer

SpecQuery == InitQuery /\ [][NextQuery]_vars

----------------------------------------------------------------------------
(* Speaker attribution (lib/speaker-attribution.ts), applied to every     *)
(* final segment by useTranscriptStorage.storeSegment                      *)
\* CONTACT_PATTERNS: the contact speaks of themself. A pattern is the sequence of its parts, each
\* part the set of its alternatives ('' for a part that may be absent).
CONTACT_PATTERNS ==
  <<
     \* /\bI work at\b/i
     <<
       {<<73, 32, 119, 111, 114, 107, 32, 97, 116>>}
     >>,
     \* /\bI'm (?:a |an |the )?(?:founder|ceo|...|head of)\b/i
     <<
       {<<73, 39, 109, 32>>},
       {<<>>, <<97, 32>>, <<97, 110, 32>>, <<116, 104, 101, 32>>},
       {<<102, 111, 117, 110, 100, 101, 114>>, <<99, 101, 111>>,
        <<99, 116, 111>>, <<100, 101, 118, 101, 108, 111, 112, 101, 114>>,
        <<100, 101, 115, 105, 103, 110, 101, 114>>,
        <<101, 110, 103, 105, 110, 101, 101, 114>>,
        <<115, 116, 117, 100, 101, 110, 116>>,
        <<105, 110, 118, 101, 115, 116, 111, 114>>,
        <<112, 97, 114, 116, 110, 101, 114>>,
        <<100, 105, 114, 101, 99, 116, 111, 114>>,
        <<109, 97, 110, 97, 103, 101, 114>>, <<118, 112>>,
        <<104, 101, 97, 100, 32, 111, 102>>}
     >>,
     \* /\bmy name is\b/i
     <<
       {<<109, 121, 32, 110, 97, 109, 101, 32, 105, 115>>}
     >>,
     \* /\bI (?:founded|started|co-founded|built|created|run|lead|manage)\b/i
     <<
       {<<73, 32>>},
       {<<102, 111, 117, 110, 100, 101, 100>>,
        <<115, 116, 97, 114, 116, 101, 100>>,
        <<99, 111, 45, 102, 111, 117, 110, 100, 101, 100>>,
        <<98, 117, 105, 108, 116>>, <<99, 114, 101, 97, 116, 101, 100>>,
        <<114, 117, 110>>, <<108, 101, 97, 100>>,
        <<109, 97, 110, 97, 103, 101>>}
     >>,
     \* /\bI'm (?:from|based in|working on|building|currently at)\b/i
     <<
       {<<73, 39, 109, 32>>},
       {<<102, 114, 111, 109>>, <<98, 97, 115, 101, 100, 32, 105, 110>>,
        <<119, 111, 114, 107, 105, 110, 103, 32, 111, 110>>,
        <<98, 117, 105, 108, 100, 105, 110, 103>>,
        <<99, 117, 114, 114, 101, 110, 116, 108, 121, 32, 97, 116>>}
     >>,
     \* /\bI've been (?:working|doing|building|running)\b/i
     <<
       {<<73, 39, 118, 101, 32, 98, 101, 101, 110, 32>>},
       {<<119, 111, 114, 107, 105, 110, 103>>, <<100, 111, 105, 110, 103>>,
        <<98, 117, 105, 108, 100, 105, 110, 103>>,
        <<114, 117, 110, 110, 105, 110, 103>>}
     >>,
     \* /\bI (?:studied|graduated|went to)\b/i
     <<
       {<<73, 32>>},
       {<<115, 116, 117, 100, 105, 101, 100>>,
        <<103, 114, 97, 100, 117, 97, 116, 101, 100>>,
        <<119, 101, 110, 116, 32, 116, 111>>}
     >>,
     \* /\bmy company\b/i
     <<
       {<<109, 121, 32, 99, 111, 109, 112, 97, 110, 121>>}
     >>,
     \* /\bmy startup\b/i
     <<
       {<<109, 121, 32, 115, 116, 97, 114, 116, 117, 112>>}
     >>,
     \* /\bmy team\b/i
     <<
       {<<109, 121, 32, 116, 101, 97, 109>>}
     >>,
     \* /\bwe're (?:building|working on|launching|raising|hiring)\b/i
     <<
       {<<119, 101, 39, 114, 101, 32>>},
       {<<98, 117, 105, 108, 100, 105, 110, 103>>,
        <<119, 111, 114, 107, 105, 110, 103, 32, 111, 110>>,
        <<108, 97, 117, 110, 99, 104, 105, 110, 103>>,
        <<114, 97, 105, 115, 105, 110, 103>>,
        <<104, 105, 114, 105, 110, 103>>}
     >>,
     \* /\bour product\b/i
     <<
       {<<111, 117, 114, 32, 112, 114, 111, 100, 117, 99, 116>>}
     >>,
     \* /\bour company\b/i
     <<
       {<<111, 117, 114, 32, 99, 111, 109, 112, 97, 110, 121>>}
     >>
  >>

\* USER_PATTERNS: the user addresses the contact. A pattern is the sequence of its parts, each
\* part the set of its alternatives ('' for a part that may be absent).
USER_PATTERNS ==
  <<
     \* /\byou should (?:check out|look at|try|talk to|meet|connect with)\b/i
     <<
       {<<121, 111, 117, 32, 115, 104, 111, 117, 108, 100, 32>>},
       {<<99, 104, 101, 99, 107, 32, 111, 117, 116>>,
        <<108, 111, 111, 107, 32, 97, 116>>, <<116, 114, 121>>,
        <<116, 97, 108, 107, 32, 116, 111>>, <<109, 101, 101, 116>>,
        <<99, 111, 110, 110, 101, 99, 116, 32, 119, 105, 116, 104>>}
     >>,
     \* /\blet me (?:send|share|introduce|connect|give)\b/i
     <<
       {<<108, 101, 116, 32, 109, 101, 32>>},
       {<<115, 101, 110, 100>>, <<115, 104, 97, 114, 101>>,
        <<105, 110, 116, 114, 111, 100, 117, 99, 101>>,
        <<99, 111, 110, 110, 101, 99, 116>>, <<103, 105, 118, 101>>}
     >>,
     \* /\bI'll (?:send|share|introduce|connect|forward|email)\b/i
     <<
       {<<73, 39, 108, 108, 32>>},
       {<<115, 101, 110, 100>>, <<115, 104, 97, 114, 101>>,
        <<105, 110, 116, 114, 111, 100, 117, 99, 101>>,
        <<99, 111, 110, 110, 101, 99, 116>>,
        <<102, 111, 114, 119, 97, 114, 100>>, <<101, 109, 97, 105, 108>>}
     >>,
     \* /\bhave you (?:tried|heard|seen|met|checked)\b/i
     <<
       {<<104, 97, 118, 101, 32, 121, 111, 117, 32>>},
       {<<116, 114, 105, 101, 100>>, <<104, 101, 97, 114, 100>>,
        <<115, 101, 101, 110>>, <<109, 101, 116>>,
        <<99, 104, 101, 99, 107, 101, 100>>}
     >>,
     \* /\byou might (?:like|want|enjoy|find)\b/i
     <<
       {<<121, 111, 117, 32, 109, 105, 103, 104, 116, 32>>},
       {<<108, 105, 107, 101>>, <<119, 97, 110, 116>>,
        <<101, 110, 106, 111, 121>>, <<102, 105, 110, 100>>}
     >>,
     \* /\bI can (?:introduce|connect|send|share)\b/i
     <<
       {<<73, 32, 99, 97, 110, 32>>},
       {<<105, 110, 116, 114, 111, 100, 117, 99, 101>>,
        <<99, 111, 110, 110, 101, 99, 116>>, <<115, 101, 110, 100>>,
        <<115, 104, 97, 114, 101>>}
     >>,
     \* /\bI know (?:someone|a guy|a person|somebody)\b/i
     <<
       {<<73, 32, 107, 110, 111, 119, 32>>},
       {<<115, 111, 109, 101, 111, 110, 101>>, <<97, 32, 103, 117, 121>>,
        <<97, 32, 112, 101, 114, 115, 111, 110>>,
        <<115, 111, 109, 101, 98, 111, 100, 121>>}
     >>,
     \* /\bwhat do you (?:think|do|work on)\b/i
     <<
       {<<119, 104, 97, 116, 32, 100, 111, 32, 121, 111, 117, 32>>},
       {<<116, 104, 105, 110, 107>>, <<100, 111>>,
        <<119, 111, 114, 107, 32, 111, 110>>}
     >>,
     \* /\btell me (?:about|more)\b/i
     <<
       {<<116, 101, 108, 108, 32, 109, 101, 32>>},
       {<<97, 98, 111, 117, 116>>, <<109, 111, 114, 101>>}
     >>,
     \* /\bwhat's your\b/i
     <<
       {<<119, 104, 97, 116, 39, 115, 32, 121, 111, 117, 114>>}
     >>,
     \* /\bwhere are you\b/i
     <<
       {<<119, 104, 101, 114, 101, 32, 97, 114, 101, 32, 121, 111, 117>>}
     >>,
     \* /\bnice to meet you\b/i
     <<
       {<<110, 105, 99, 101, 32, 116, 111, 32, 109, 101, 101, 116, 32, 121, 111, 117>>}
     >>
  >>

\* what may be said in a segment: 'I work at Acme', 'i'm a Founder',
\* 'my team', 'my teams', 'Tell me more', 'nice to meet you', 'hello'
Sayings ==
  {<<73, 32, 119, 111, 114, 107, 32, 97, 116, 32, 65, 99, 109, 101>>,
   <<105, 39, 109, 32, 97, 32, 70, 111, 117, 110, 100, 101, 114>>,
   <<109, 121, 32, 116, 101, 97, 109>>,
   <<109, 121, 32, 116, 101, 97, 109, 115>>,
   <<84, 101, 108, 108, 32, 109, 101, 32, 109, 111, 114, 101>>,
   <<110, 105, 99, 101, 32, 116, 111, 32, 109, 101, 101, 116, 32, 121, 111, 117>>,
   <<104, 101, 108, 108, 111>>}

\* \w
IsWordChar(c) == c \in (48..57) \cup (65..90) \cup (97..122) \cup {95}

\* \b between the characters k and k + 1 of s
WordBoundary(s, k) ==
  (k >= 1 /\ IsWordChar(s[k])) # (k < Len(s) /\ IsWordChar(s[k + 1]))

\* the texts a pattern is made of, one alternative of every part
RECURSIVE Alternatives(_)
Alternatives(pattern) ==
  IF pattern = <<>> THEN {<<>>}
  ELSE {a \o rest : a \in Head(pattern), rest \in Alternatives(Tail(pattern))}

\* pattern.test(text) of a pattern /\b...\b/i
Test(pattern, text) ==
  LET low == Lower(text)
  IN \E lit \in Alternatives(pattern) :
       \E k \in 0..(Len(low) - Len(lit)) :
         /\ SubSeq(low, k + 1, k + Len(lit)) = Lower(lit)
         /\ WordBoundary(low, k)
         /\ WordBoundary(low, k + Len(lit))

\* PATTERNS.reduce((score, pattern) => score + (pattern.test(text) ? 1 : 0), 0)
PatternScore(patterns, text) ==
  Cardinality({i \in 1..Len(patterns) : Test(patterns[i], text)})

\* variant: a tie above zero goes to the contact
attributeSpeakerTieToContact(text) ==
  LET contactScore == PatternScore(CONTACT_PATTERNS, text)
      userScore == PatternScore(USER_PATTERNS, text)
  IN IF contactScore > 0 /\ contactScore >= userScore THEN "contact"
     ELSE IF userScore > 0 /\ userScore > contactScore THEN "user"
     ELSE "unknown"

attributeSpeaker(text) ==
  LET contactScore == PatternScore(CONTACT_PATTERNS, text)
      userScore == PatternScore(USER_PATTERNS, text)
  IN IF contactScore > 0 /\ contactScore > userScore THEN "contact"
     ELSE IF userScore > 0 /\ userScore > contactScore THEN "user"
     ELSE "unknown"

\* the sayings of a segment, one after the other
RECURSIVE SegmentText(_)
SegmentText(sayings) ==
  IF Len(sayings) = 1 THEN sayings[1]
  ELSE sayings[1] \o <<46, 32>> \o SegmentText(Tail(sayings))

\* a final segment of up to MaxSayings sayings has arrived
InitSpeaker ==
  /\ store = InitStore
  /\ deletedCardIds = {}
  /\ recon = InitRecon
  /\ dedup = InitDedup
  /\ ext = InitExt
  /\ env = InitEnv
  /\ log = <<>>
  /\ \E n \in 1..MaxSayings : \E sayings \in [1..n -> Sayings] :
       call = [fn |-> "segment", text |-> SegmentText(sayings)]

\* storeSegment: the new text is labelled
StoreSegment ==
  /\ call.fn = "segment"
  /\ call' = [fn |-> "attributed", text |-> call.text,
              speakerLabel |-> attributeSpeaker(call.text)]
  /\ UNCHANGED <<store, deletedCardIds, recon, dedup, ext, env, log>>

NextSpeaker == StoreSegment

SpecSpeaker == InitSpeaker /\ [][NextSpeaker]_vars

----------------------------------------------------------------------------
(* Voice search while a session is live (Home.handleTranscript,            *)
(* detectVoiceQuery, useDeepgramTranscription)                              *)
\* TRIGGER_PATTERNS: a pattern is the sequence of its parts, each part the
\* set of its alternatives ('' for a part that may be absent); \s+ is one
\* space, as the texts that are heard hold single spaces only.
TRIGGER_PATTERNS ==
  <<
     \* /recall[,.]?\s+who\s+was/i
     <<{<<114, 101, 99, 97, 108, 108>>},
       {<<>>, <<44>>, <<46>>},
       {<<32, 119, 104, 111, 32, 119, 97, 115>>}>>,
     \* /recall[,.]?\s+find/i
     <<{<<114, 101, 99, 97, 108, 108>>},
       {<<>>, <<44>>, <<46>>},
       {<<32, 102, 105, 110, 100>>}>>,
     \* /recall[,.]?\s+search/i
     <<{<<114, 101, 99, 97, 108, 108>>},
       {<<>>, <<44>>, <<46>>},
       {<<32, 115, 101, 97, 114, 99, 104>>}>>,
     \* /recall[,.]?\s+show\s+me/i
     <<{<<114, 101, 99, 97, 108, 108>>},
       {<<>>, <<44>>, <<46>>},
       {<<32, 115, 104, 111, 119, 32, 109, 101>>}>>,
     \* /recall[,.]?\s+what\s+did/i
     <<{<<114, 101, 99, 97, 108, 108>>},
       {<<>>, <<44>>, <<46>>},
       {<<32, 119, 104, 97, 116, 32, 100, 105, 100>>}>>,
     \* /recall[,.]?\s+where\s+does/i
     <<{<<114, 101, 99, 97, 108, 108>>},
       {<<>>, <<44>>, <<46>>},
       {<<32, 119, 104, 101, 114, 101, 32, 100, 111, 101, 115>>}>>,
     \* /i\s+can'?t\s+remember/i
     <<{<<105, 32, 99, 97, 110>>},
       {<<>>, <<39>>},
       {<<116, 32, 114, 101, 109, 101, 109, 98, 101, 114>>}>>,
     \* /i\s+can'?t\s+recall/i
     <<{<<105, 32, 99, 97, 110>>},
       {<<>>, <<39>>},
       {<<116, 32, 114, 101, 99, 97, 108, 108>>}>>,
     \* /who\s+was\s+that\s+person/i
     <<{<<119, 104, 111, 32, 119, 97, 115, 32, 116, 104, 97, 116, 32, 112, 101, 114, 115, 111, 110>>}>>,
     \* /who\s+was\s+the\s+(guy|person|woman|man|lady|girl|dude)/i
     <<{<<119, 104, 111, 32, 119, 97, 115, 32, 116, 104, 101, 32>>},
       {<<103, 117, 121>>, <<112, 101, 114, 115, 111, 110>>, <<119, 111, 109, 97, 110>>, <<109, 97, 110>>, <<108, 97, 100, 121>>, <<103, 105, 114, 108>>, <<100, 117, 100, 101>>}>>,
     \* /do\s+you\s+remember/i
     <<{<<100, 111, 32, 121, 111, 117, 32, 114, 101, 109, 101, 109, 98, 101, 114>>}>>,
     \* /which\s+(company|person|name)/i
     <<{<<119, 104, 105, 99, 104, 32>>},
       {<<99, 111, 109, 112, 97, 110, 121>>, <<112, 101, 114, 115, 111, 110>>, <<110, 97, 109, 101>>}>>,
     \* /trying\s+to\s+(recall|remember|find|think)/i
     <<{<<116, 114, 121, 105, 110, 103, 32, 116, 111, 32>>},
       {<<114, 101, 99, 97, 108, 108>>, <<114, 101, 109, 101, 109, 98, 101, 114>>, <<102, 105, 110, 100>>, <<116, 104, 105, 110, 107>>}>>,
     \* /what\s+was\s+(his|her|their)\s+name/i
     <<{<<119, 104, 97, 116, 32, 119, 97, 115, 32>>},
       {<<104, 105, 115>>, <<104, 101, 114>>, <<116, 104, 101, 105, 114>>},
       {<<32, 110, 97, 109, 101>>}>>
  >>

\* what is said in one final result of the transcription: 'do you remember
\* Ann' and 'nice to meet you'
Utterances ==
  [recall |-> <<100, 111, 32, 121, 111, 117, 32, 114, 101, 109, 101, 109, 98, 101, 114, 32, 65, 110, 110>>,
   plain |-> <<110, 105, 99, 101, 32, 116, 111, 32, 109, 101, 101, 116, 32, 121, 111, 117>>]

\* trimmed.match(pattern): the leftmost match, as [index, length], or NoMatch
NoMatch == [index |-> 0 - 1, length |-> 0]

MatchesAt(pattern, low, k) ==
  {lit \in Alternatives(pattern) :
     k + Len(lit) <= Len(low) /\ SubSeq(low, k + 1, k + Len(lit)) = Lower(lit)}

Match(pattern, text) ==
  LET low == Lower(text)
      At(k) == MatchesAt(pattern, low, k)
      Hits == {k \in 0..Len(low) : At(k) # {}}
  IN IF Hits = {} THEN NoMatch
     ELSE LET k == CHOOSE h \in Hits : \A g \in Hits : h <= g
              lit == CHOOSE a \in At(k) : \A b \in At(k) : Len(a) >= Len(b)
          IN [index |-> k, length |-> Len(lit)]

\* s.replace(/[?.!]+$/, '')
RECURSIVE StripEndMarks(_)
StripEndMarks(s) ==
  IF s # <<>> /\ s[Len(s)] \in {63, 46, 33}
  THEN StripEndMarks(SubSeq(s, 1, Len(s) - 1)) ELSE s

detectVoiceQuery(text) ==
  LET trimmed == Trim(text)
      Found == {i \in 1..Len(TRIGGER_PATTERNS) :
                  Match(TRIGGER_PATTERNS[i], trimmed) # NoMatch}
      first == CHOOSE i \in Found : \A j \in Found : i <= j
      match == Match(TRIGGER_PATTERNS[first], trimmed)
      afterTrigger == Trim(SubSeq(trimmed, match.index + match.length + 1,
                                  Len(trimmed)))
      queryText == Trim(StripEndMarks(afterTrigger))
  IN IF trimmed = <<>> \/ Found = {}
     THEN [isQuery |-> FALSE, queryText |-> <<>>]
     ELSE [isQuery |-> TRUE,
           queryText |-> IF queryText # <<>> THEN queryText ELSE trimmed]

\* the voice search of the page: the transcript kept by the transcription
\* hook, the last result it passed on, the two fields of the store and the
\* refs of the page
NoVoice ==
  [fn |-> "voice", transcript |-> <<>>, said |-> <<>>, isFinal |-> FALSE,
   finals |-> 0, isVoiceSearching |-> FALSE, searchQuery |-> <<>>,
   voiceQueryText |-> <<>>, voiceMatch |-> <<>>, voiceQueryTimer |-> FALSE]

\* the handler of the 3 s timer, and the dismissal by other speech
Dismissed(v) ==
  [v EXCEPT !.searchQuery = <<>>, !.isVoiceSearching = FALSE,
            !.voiceQueryText = <<>>, !.voiceMatch = <<>>,
            !.voiceQueryTimer = FALSE]

\* socket.onmessage with a result `said`, and the handleTranscript(text,
\* isFinal) it calls: the page's part of the handler
handleTranscript(v, st, said, isFinal) ==
  LET text == Trim(v.transcript \o <<32>> \o said)
      v1 == [v EXCEPT !.said = said, !.isFinal = isFinal,
                      !.transcript = IF isFinal THEN text ELSE @,
                      !.finals = IF isFinal THEN @ + 1 ELSE @]
      voiceQuery == detectVoiceQuery(text)
      matchedName ==
        resolveVoiceQueryToName(voiceQuery.queryText, st.historyCards, <<>>)
  IN IF ~isFinal THEN v1
     ELSE IF voiceQuery.isQuery /\ st.activeCard = NoCard
       THEN [v1 EXCEPT !.voiceQueryText = voiceQuery.queryText,
                       !.searchQuery = IF Truthy(matchedName)
                                       THEN matchedName ELSE @,
                       !.voiceMatch = IF Truthy(matchedName)
                                      THEN matchedName ELSE @,
                       !.isVoiceSearching = TRUE,
                       !.voiceQueryTimer = TRUE]
     ELSE IF v.isVoiceSearching THEN Dismissed(v1)
     ELSE v1

CommitVoice(w, v) ==
  /\ Bounded(w)
  /\ store' = w.st
  /\ deletedCardIds' = w.del
  /\ recon' = w.rec
  /\ dedup' = w.dd
  /\ ext' = w.ext
  /\ env' = w.env
  /\ log' = w.log
  /\ call' = v

\* the page is open on a History of one person, 'Ann Lee' of 'Acme'
InitVoice ==
  /\ store = [InitStore EXCEPT !.historyCards =
                <<Row(1, VoiceTexts.AnnLee, VoiceTexts.Acme, <<>>, "other",
                      <<>>, <<>>, 1)>>]
  /\ deletedCardIds = {}
  /\ recon = InitRecon
  /\ dedup = InitDedup
  /\ ext = InitExt
  /\ env = InitEnv
  /\ log = <<>>
  /\ call = NoVoice

\* a result of the transcription arrives, interim or final
Result ==
  /\ env.phase = "live"
  /\ call.finals < MaxFinals
  /\ \E u \in DOMAIN Utterances : \E isFinal \in BOOLEAN :
       LET text == Trim(call.transcript \o <<32>> \o Utterances[u])
       IN CommitVoice(setTranscript([World EXCEPT !.env.heard = Len(text)],
                                    Len(text)),
                      handleTranscript(call, store, Utterances[u], isFinal))

\* the 3 s timer armed by the last recall phrase fires
VoiceTimer ==
  /\ call.voiceQueryTimer
  /\ CommitVoice(World, Dismissed(call))

NextVoice ==
  \/ StartSession
  \/ SessionCreated
  \/ Connected
  \/ ConnectFailed
  \/ EndSession
  \/ Result
  \/ VoiceTimer
  \/ ExtractTrigger
  \/ ExtractDone
  \/ ExtractNull
  \/ DeferredApply

SpecVoice == InitVoice /\ [][NextVoice]_vars

----------------------------------------------------------------------------
(* Deterministic grouping (app/api/group/route.ts) *)
categoryLabels ==
  [founder |-> "Founders", vc |-> "Investors", developer |-> "Developers",
   designer |-> "Designers", student |-> "Students",
   executive |-> "Executives"]

\* the keys of a Map in the order of their insertion: key by key as the
\* contacts that have one (Keyed) are met
RECURSIVE KeysInOrder(_, _)
KeysInOrder(keys, seen) ==
  IF keys = <<>> THEN seen
  ELSE LET k == Head(keys)
           New == k.keyed /\ \A i \in 1..Len(seen) : seen[i] # k.key
       IN KeysInOrder(Tail(keys), IF New THEN Append(seen, k.key) ELSE seen)

buildDeterministicGroups(contacts) ==
  LET HasCompany(c) == Truthy(c.company)
      CompanyKey(c) == Trim(Lower(c.company))
      HasCategory(c) == c.category # "" /\ c.category # "other"
      CategoryKey(c) == c.category
      companies ==
        KeysInOrder([i \in 1..Len(contacts) |->
                       [keyed |-> HasCompany(contacts[i]),
                        key |-> CompanyKey(contacts[i])]], <<>>)
      categories ==
        KeysInOrder([i \in 1..Len(contacts) |->
                       [keyed |-> HasCategory(contacts[i]),
                        key |-> CategoryKey(contacts[i])]], <<>>)
      AtCompany(key) ==
        LET Member(c) == HasCompany(c) /\ CompanyKey(c) = key
        IN SelectSeq(contacts, Member)
      InCategory(key) ==
        LET Member(c) == HasCategory(c) /\ CategoryKey(c) = key
        IN SelectSeq(contacts, Member)
      Ids(members) == [i \in 1..Len(members) |-> members[i].id]
      CompanyGroup(key) ==
        LET members == AtCompany(key)
        IN [label |-> members[1].company, type |-> "company",
            cardIds |-> Ids(members), count |-> Len(members)]
      CategoryGroup(key) ==
        LET members == InCategory(key)
        IN [label |-> IF key \in DOMAIN categoryLabels
                      THEN categoryLabels[key] ELSE key,
            type |-> "category",
            cardIds |-> Ids(members), count |-> Len(members)]
      Shared(group) == group.count >= 2
  IN SelectSeq([i \in 1..Len(companies) |-> CompanyGroup(companies[i])],
               Shared)
     \o SelectSeq([i \in 1..Len(categories) |-> CategoryGroup(categories[i])],
                  Shared)

\* the contacts a request may list: a developer at 'Acme' met in session 1,
\* someone at 'acme', a developer, and someone met in session 1
ContactProfiles ==
  {[company |-> <<65, 99, 109, 101>>, category |-> "developer", sessionId |-> 1],
   [company |-> <<97, 99, 109, 101>>, category |-> "other", sessionId |-> 0],
   [company |-> <<>>, category |-> "developer", sessionId |-> 0],
   [company |-> <<>>, category |-> "other", sessionId |-> 1]}

\* the body of a request: up to MaxContacts contacts, the one at position i
\* with id i
InitGroup ==
  /\ store = InitStore
  /\ deletedCardIds = {}
  /\ recon = InitRecon
  /\ dedup = InitDedup
  /\ ext = InitExt
  /\ env = InitEnv
  /\ log = <<>>
  /\ \E n \in 0..MaxContacts : \E profiles \in [1..n -> ContactProfiles] :
       call = [fn |-> "request",
               contacts |-> [i \in 1..n |->
                  [id |-> i, company |-> profiles[i].company,
                   category |-> profiles[i].category,
                   sessionId |-> profiles[i].sessionId]]]

\* POST /api/group: the deterministic groups of the response
GroupRequest ==
  /\ call.fn = "request"
  /\ call' = [fn |-> "grouped", contacts |-> call.contacts,
              groups |-> IF Len(call.contacts) <= GroupAbove THEN <<>>
                         ELSE buildDeterministicGroups(call.contacts)]
  /\ UNCHANGED <<store, deletedCardIds, recon, dedup, ext, env, log>>

NextGroup == GroupRequest

SpecGroup == InitGroup /\ [][NextGroup]_vars

----------------------------------------------------------------------------
(* useAutoPersist and persistCard: the debounced writes of the cards to   *)
(* person_cards and action_items. The id of an action item is its text     *)
(* here.                                                                   *)
cardFingerprint(card) ==
  [name |-> card.name, company |-> card.company, role |-> card.role,
   category |-> card.category, summary |-> card.summary,
   linkedInUrl |-> card.linkedInUrl,
   actionItemCount |-> Len(SelectSeq(card.actionItems, Truthy))]

\* the store subscriber of useAutoPersist: the debounce timers after a change
\* of the store from prevState to state
AutoPersistSubscriber(timers, prevState, state, deleted) ==
  LET cardsToCheck ==
        (IF state.activeCard # NoCard /\ state.activeCard # prevState.activeCard
         THEN {state.activeCard} ELSE {})
        \cup {state.historyCards[i] : i \in
                {j \in 1..Len(state.historyCards) :
                   \A k \in 1..Len(prevState.historyCards) :
                     prevState.historyCards[k] # state.historyCards[j]}}
      armed == {c \in cardsToCheck : c.id \notin deleted}
  IN IF state.sessionId = 0 THEN timers
     ELSE {t \in timers : \A c \in armed : c.id # t.id} \cup armed

\* persistCard(), up to its first await; the timer passes the session id of
\* the card or else that of the store, which the subscriber found set
persistCard(p, deleted, card) ==
  IF card.id \in deleted THEN p
  ELSE IF \E v \in p.versions :
            v.id = card.id /\ v.fingerprint = cardFingerprint(card) THEN p
  ELSE IF ~Truthy(card.name) THEN p
  ELSE [p EXCEPT !.wrote = {[table |-> "person_cards", cardId |-> card.id]},
                 !.inflight = @ \cup {[card |-> card, rest |-> <<>>,
                                        item |-> <<>>]}]

\* persistCard() of a job, from the answer to an upsert up to the next await
PersistResumed(p, job, ok) ==
  LET p1 == [p EXCEPT !.inflight = @ \ {job}]
      New(text) == Truthy(text) /\ text \notin p.items
      Upsert(q, texts) ==
        IF texts = <<>> THEN q
        ELSE [q EXCEPT
                !.wrote = {[table |-> "action_items", cardId |-> job.card.id]},
                !.inflight = @ \cup {[card |-> job.card, rest |-> Tail(texts),
                                       item |-> Head(texts)]}]
  IN IF job.item = <<>>
     THEN IF ~ok THEN p1
          ELSE Upsert([p1 EXCEPT !.versions =
                         {v \in @ : v.id # job.card.id}
                         \cup {[id |-> job.card.id,
                                 fingerprint |-> cardFingerprint(job.card)]}],
                      SelectSeq(job.card.actionItems, New))
     ELSE Upsert(IF ok THEN [p1 EXCEPT !.items = @ \cup {job.item}] ELSE p1,
                 job.rest)

\* a step of the page with the auto-persist hook mounted
CommitPersist(w, p) ==
  /\ store' = w.st
  /\ deletedCardIds' = w.del
  /\ recon' = w.rec
  /\ dedup' = w.dd
  /\ ext' = w.ext
  /\ env' = w.env
  /\ log' = <<>>
  /\ call' = p

\* after a change of the store: nothing is written, the timers are armed
Armed(w) ==
  [call EXCEPT !.wrote = {},
               !.timers = AutoPersistSubscriber(@, store, w.st, w.del)]

\* a session is live: 'Al' is the Active Record, 'Al Cy' was loaded
InitPersist ==
  /\ store = [InitStore EXCEPT
                !.isListening = TRUE, !.sessionId = 2,
                !.activeCard =
                   [Row(2, Texts.Al, Texts.X, <<>>, "other", <<>>,
                        <<Texts.Zip>>, 1) EXCEPT !.sessionId = 2,
                                                 !.isActive = TRUE],
                !.historyCards = Database]
  /\ deletedCardIds = {}
  /\ recon = InitRecon
  /\ dedup = InitDedup
  /\ ext = InitExt
  /\ env = [InitEnv EXCEPT !.nextId = 3, !.nextSession = 3, !.phase = "live"]
  /\ log = <<>>
  /\ call = [fn |-> "persist", timers |-> {}, inflight |-> {},
             versions |-> {}, items |-> {}, wrote |-> {}]

\* the Active Record gets its summary
CardEdited ==
  /\ store.activeCard # NoCard /\ store.activeCard.summary = <<>>
  /\ LET w == updateActiveCard(World, [summary |-> Texts.s])
     IN CommitPersist(w, Armed(w))

SessionEnded ==
  /\ store.isListening
  /\ LET w == endSession([World EXCEPT !.env.phase = "ended"])
     IN CommitPersist(w, Armed(w))

\* a merge of the reconciliation or of the dedup is applied
CardsMerged ==
  \E sourceCardId, targetCardId \in PresentIds(store) :
    /\ sourceCardId # targetCardId
    /\ LET w == mergeCards(World, sourceCardId, targetCardId)
       IN CommitPersist(w, Armed(w))

\* a debounce timer fires
DebounceTimer ==
  \E card \in call.timers :
    CommitPersist(World,
                  persistCard([call EXCEPT !.wrote = {}, !.timers = @ \ {card}],
                              deletedCardIds, card))

\* supabase answers an upsert
UpsertAnswered ==
  \E job \in call.inflight, ok \in BOOLEAN :
    CommitPersist(World, PersistResumed([call EXCEPT !.wrote = {}], job, ok))

NextPersist ==
  \/ CardEdited
  \/ SessionEnded
  \/ CardsMerged
  \/ DebounceTimer
  \/ UpsertAnswered

SpecPersist == InitPersist /\ [][NextPersist]_vars

----------------------------------------------------------------------------
(* Properties *)

\* the record of a store state with the given id (NoCard when there is none)
CardOf(st, id) == FindCard(AllCards(st), id)

\* the two ids a logged merge names
MergeIds(e) == {e.ids[1], e.ids[2]}

\* a logged merge of confidence above 90 that changed the store
AppliedMerge(e) == e.op = "merge" /\ e.confidence > 90 /\ e.changed

\* C1: an id in the deleted-ids set is never removed from it, and after
\* every step no record with an id of that set is the Active Record or in
\* History.
TombstonePermanent ==
  [][/\ deletedCardIds \subseteq deletedCardIds'
     /\ deletedCardIds' \cap PresentIds(store') = {}]_vars

\* C2: in every state, each id handed out so far is in the deleted-ids set
\* exactly if no record with that id is present: a merge never leaves its
\* source removed but not tombstoned, or tombstoned but still present.
MergeTombstonesAtomically ==
  \A id \in 1..(env.nextId - 1) :
    (id \in deletedCardIds) <=> (id \notin PresentIds(store))

\* C3: a confidence below 60 is discarded, one from 60 to 90 is suggested,
\* one above 90 is auto-applied, whichever of routeByConfidence, routeUpdate
\* and routeMerge routes it.
RoutingExact ==
  call.fn # "none" =>
    /\ call.action \in {"discard", "suggest", "auto-apply"}
    /\ (call.action = "discard") <=> (call.confidence < 60)
    /\ (call.action = "suggest") <=>
          (60 <= call.confidence /\ call.confidence <= 90)
    /\ (call.action = "auto-apply") <=> (call.confidence > 90)

\* a merge at confidence 90 was routed to "suggest"
RoutedAtBoundary ==
  call.fn = "routeMerge" /\ call.confidence = 90 /\ call.action = "suggest"

\* C4: a step that processes an oracle result whose proposals all have
\* confidence <= 90 leaves the Active Record, History and the deleted-ids
\* set as they were.
OnlyAutoApplyMutates ==
  [][(log' # <<>> /\ \A i \in 1..Len(log') : log'[i].confidence <= 90)
       => /\ store'.activeCard = store.activeCard
          /\ store'.historyCards = store.historyCards
          /\ deletedCardIds' = deletedCardIds]_vars

\* last word of a name of two words or more
LastName(name) ==
  LET words == SplitWords(Trim(Lower(name)), <<>>)
  IN IF Len(words) >= 2 THEN words[Len(words)] ELSE <<>>

Differ(a, b) == Truthy(a) /\ Truthy(b) /\ Trim(Lower(a)) # Trim(Lower(b))

\* a hard-negative pair: differing companies, roles or last names
HardNegative(a, b) ==
  \/ Differ(a.company, b.company)
  \/ Differ(a.role, b.role)
  \/ Differ(LastName(a.name), LastName(b.name))

\* C5: the first merge of an oracle result, even of confidence above 90,
\* is not applied when the two records it names are a hard-negative pair.
HardNegativeNeverMerged ==
  [][(log' # <<>> /\ AppliedMerge(log'[1])
        /\ MergeIds(log'[1]) \subseteq PresentIds(store))
       => ~HardNegative(CardOf(store, log'[1].ids[1]),
                        CardOf(store, log'[1].ids[2]))]_vars

\* C6: of the confident merges one handler applies from one batch, no two
\* name a common id, and the dedup loop applies no merge naming an id of a merge
\* it applied earlier in the batch.
NoChainMergeInBatch ==
  [][/\ \A i, j \in 1..Len(log') :
          (i < j /\ AppliedMerge(log'[i]) /\ AppliedMerge(log'[j]))
            => MergeIds(log'[i]) \cap MergeIds(log'[j]) = {}
     /\ \A i \in 1..Len(log') :
          (log'[i].via = "dedup" /\ AppliedMerge(log'[i]))
            => MergeIds(log'[i]) \cap dedup.call.mergedCardIds = {}]_vars

\* C7: a step that processes an UpdateProposal of confidence above 90 for
\* id X leaves every record whose id is not X as it was.
UpdateOnlyNamedRecord ==
  [][\A i \in 1..Len(log') :
       (log'[i].op = "update" /\ log'[i].confidence > 90)
         => \A id \in PresentIds(store') \ {log'[i].ids[1]} :
              CardOf(store', id) = CardOf(store, id)]_vars

\* C8: mergeCards with a source or a target that is not present changes
\* neither the store nor the deleted-ids set, and the reconcile pass and the
\* dedup pass that were handed such a merge end with no proposal left.
AbsentIdMergeSkipped ==
  \A s \in 1..env.nextId, t \in 1..env.nextId :
    (s \notin PresentIds(store) \/ t \notin PresentIds(store)) =>
      LET m == [sourceCardId |-> s, targetCardId |-> t,
                confidence |-> AutoApplyAbove + 1]
          w == mergeCards(World, s, t)
          r == ReconcileResult(World, [updates |-> <<>>, merges |-> <<m>>])
          d == DedupResult(World, [merges |-> <<m>>])
      IN /\ w.st = store /\ w.del = deletedCardIds
         /\ recon.call.on =>
              (r.st = store /\ r.del = deletedCardIds
               /\ r.rec.call = NoReconCall)
         /\ dedup.call.phase = "fetch" =>
              (d.st = store /\ d.del = deletedCardIds
               /\ d.dd.call = NoDedupCall)

\* the reconcile pass handed mergeCards a confident merge naming an id
\* that is not present
AbsentIdMergeHandled ==
  \E i \in 1..Len(log) :
    /\ log[i].op = "merge" /\ log[i].branch = "mergeCards"
    /\ log[i].confidence > 90
    /\ ~(MergeIds(log[i]) \subseteq PresentIds(store))
    /\ ~log[i].changed

\* C9: merging one present record into another gives a record with the
\* target's id; the longer name, the target's on a tie; the target's
\* company, role and transcript snippet if it has one, else the source's;
\* the target's category unless it is "other"; both summaries joined by
\* ". " when both are present, else the one that is present.
MergedFieldsRule ==
  \A s \in PresentIds(store), t \in PresentIds(store) :
    s # t =>
      LET S == CardOf(store, s)
          T == CardOf(store, t)
          M == CardOf(mergeCards(World, s, t).st, t)
      IN /\ M.id = t
         /\ M.name = IF Len(S.name) > Len(T.name) THEN S.name ELSE T.name
         /\ M.company = IF T.company # <<>> THEN T.company ELSE S.company
         /\ M.role = IF T.role # <<>> THEN T.role ELSE S.role
         /\ M.transcriptSnippet =
              IF T.transcriptSnippet # NoSnippet THEN T.transcriptSnippet
              ELSE S.transcriptSnippet
         /\ M.category = IF T.category # "other" THEN T.category
                         ELSE S.category
         /\ M.summary =
              IF T.summary # <<>> /\ S.summary # <<>>
              THEN T.summary \o <<46, 32>> \o S.summary
              ELSE IF T.summary # <<>> THEN T.summary ELSE S.summary

\* a merge of two records was applied and joined their two summaries
MergedPairApplied ==
  /\ Len(log) = 1 /\ AppliedMerge(log[1])
  /\ log[1].ids[1] # log[1].ids[2]
  /\ log[1].ids[1] \notin PresentIds(store)
  /\ Includes(CardOf(store, log[1].ids[2]).summary, <<46, 32>>)

\* no two entries of a list of action items are equal ignoring case
NoCaseDuplicates(items) ==
  \A i, j \in 1..Len(items) : i # j => Lower(items[i]) # Lower(items[j])

\* C10: a step that applies one confident merge of a record into another
\* leaves the target with its own action items followed by the source's
\* items whose text is not among them ignoring case; no two of them are
\* equal ignoring case, and every text of either record occurs among them
\* ignoring case.
MergedItemsRule ==
  [][(Len(log') = 1 /\ AppliedMerge(log'[1])
        /\ log'[1].ids[1] # log'[1].ids[2])
       => LET S == CardOf(store, log'[1].ids[1]).actionItems
              T == CardOf(store, log'[1].ids[2]).actionItems
              M == CardOf(store', log'[1].ids[2]).actionItems
              Occurs(items, x) ==
                \E k \in 1..Len(items) : Lower(items[k]) = Lower(x)
              New(x) == ~Occurs(T, x)
          IN /\ M = T \o SelectSeq(S, New)
             /\ NoCaseDuplicates(M)
             /\ \A k \in 1..Len(S) : Occurs(M, S[k])
             /\ \A k \in 1..Len(T) : Occurs(M, T[k])]_vars

\* C11: while listening with no Active Record, a candidate with a name that
\* is not the operator's makes exactly one new record, the Active Record,
\* which holds every field the candidate gives once the deferred callback
\* has run (category "other" when the candidate gives none); a candidate
\* without a name leaves the store as it is.
FirstCandidateCreatesRecord ==
  (store.isListening /\ store.activeCard = NoCard /\ ext.call.on) =>
    \A e \in CandidateAnswers :
      LET w1 == HandleEntities(World, e)
          w2 == ApplyDeferred(w1, e)
          a == w2.st.activeCard
      IN /\ (Truthy(e.name) /\ ~isSelf(e)) =>
              /\ w1.st.activeCard # NoCard
              /\ w1.st.activeCard.id \notin PresentIds(store)
              /\ w1.st.historyCards = store.historyCards
              /\ w2.st.historyCards = store.historyCards
              /\ a.id = w1.st.activeCard.id
              /\ a.name = e.name /\ a.company = e.company /\ a.role = e.role
              /\ a.summary = e.summary /\ a.actionItems = e.actionItems
              /\ a.category = IF e.category = "" THEN "other" ELSE e.category
         /\ ~Truthy(e.name) => w1.st = store

\* C12: a candidate that does not switch persons leaves every name, company
\* and role the Active Record has in the store when the candidate is applied,
\* and fills the company and role it lacks (and the name, unless the
\* candidate names the operator) from the candidate.
PopulatedFieldsKept ==
  (ext.call.on /\ store.activeCard # NoCard) =>
    \A e \in CandidateAnswers :
      LET a == HandleEntities(World, e).st.activeCard
      IN (a # NoCard /\ a.id = store.activeCard.id) =>
           \A f \in {"name", "company", "role"} :
             /\ Truthy(store.activeCard[f]) => a[f] = store.activeCard[f]
             /\ (~Truthy(store.activeCard[f]) /\ Truthy(e[f])
                  /\ ~(f = "name" /\ isSelf(e))) => a[f] = e[f]

\* C13: no step changes the category of a record, Active or in History,
\* whose category before the step is not "other".
CategoryOnlyFromOther ==
  [][\A id \in PresentIds(store) \cap PresentIds(store') :
       CardOf(store, id).category # "other"
         => CardOf(store', id).category = CardOf(store, id).category]_vars

\* C14: a candidate whose name, trimmed and in lower case, is the operator's
\* own name creates no record and leaves every record, the Active Record
\* included, exactly as it is.
SelfCandidateIgnored ==
  ext.call.on =>
    \A e \in CandidateAnswers :
      isSelf(e) => AllCards(HandleEntities(World, e).st) = AllCards(store)

\* C15: when the Active Record has a name and a candidate flagged as a new
\* person has the normalized name of a History Record of the same session,
\* the candidate is merged into that History Record, the number of records
\* does not grow and no new Active Record is started.
ReengagedPersonMerged ==
  (ext.call.on /\ store.activeCard # NoCard) =>
    \A e \in CandidateAnswers :
      LET existing == ExistingCard(store.historyCards, store.sessionId, e)
          w1 == HandleEntities(World, e)
      IN (/\ Truthy(store.activeCard.name)
          /\ e.isNewPerson /\ ~isSelf(e)
          /\ existing # NoCard) =>
           /\ CardOf(w1.st, existing.id) = MergeIntoHistoryCard(existing, e)
           /\ Len(AllCards(w1.st)) <= Len(AllCards(store))
           /\ PresentIds(w1.st) \subseteq PresentIds(store)

\* C16: in every state no record, Active or in History, has two action
\* items whose texts are equal ignoring case.
ActionItemsDistinct ==
  \A i \in 1..Len(AllCards(store)) :
    NoCaseDuplicates(AllCards(store)[i].actionItems)

\* C17: in every state the Active Record, if there is one, has its active
\* flag set, no History Record has, and no id occurs twice among the Active
\* Record and the History Records.
SingleActiveRecord ==
  /\ store.activeCard # NoCard => store.activeCard.isActive
  /\ \A i \in 1..Len(store.historyCards) : ~store.historyCards[i].isActive
  /\ \A i, j \in 1..Len(AllCards(store)) :
        i # j => AllCards(store)[i].id # AllCards(store)[j].id

\* a person switch has moved a record of the running session to History
\* and started a new Active Record
SwitchedPerson ==
  /\ store.activeCard # NoCard
  /\ \E i \in 1..Len(store.historyCards) :
        store.historyCards[i].sessionId = store.sessionId

\* the ids of a list of records, in order
IdsOf(cards) == [i \in 1..Len(cards) |-> cards[i].id]

\* the entries of a list of ids that belong to a set, in order
Among(ids, S) == LET In(x) == x \in S IN SelectSeq(ids, In)

\* C18: History is kept newest first: createNewCard, moveActiveToHistory and
\* endSession put the Active Record, its active flag cleared, in front of
\* the History they find; and in every step the records that stay in
\* History keep their relative order, the records that enter it stand in
\* front of those that stay, and an Active Record that enters it is its
\* first record and has its active flag cleared.
HistoryNewestFirst ==
  [][LET old == IdsOf(store.historyCards)
         new == IdsOf(store'.historyCards)
         Range(ids) == {ids[i] : i \in 1..Len(ids)}
         InFront(w) == w.st.historyCards
                         = <<Deactivated(store.activeCard)>> \o store.historyCards
     IN /\ store.activeCard # NoCard =>
             /\ InFront(createNewCard(World))
             /\ InFront(moveActiveToHistory(World))
             /\ InFront(endSession(World))
        /\ Among(new, Range(old)) = Among(old, Range(new))
        /\ \A i, j \in 1..Len(new) :
             (i < j /\ new[j] \notin Range(old)) => new[i] \notin Range(old)
        /\ (store.activeCard # NoCard /\ store.activeCard.id \in Range(new)) =>
             /\ new[1] = store.activeCard.id
             /\ ~store'.historyCards[1].isActive]_vars

\* a session was ended and its last Active Record stands in front of the
\* record loaded from the database
SessionRecordInFront ==
  /\ ~store.isListening /\ store.activeCard = NoCard
  /\ Len(store.historyCards) >= 2
  /\ store.historyCards[1].sessionId = store.sessionId
  /\ store.historyCards[Len(store.historyCards)].sessionId # store.sessionId

\* the position in `deduped` of the record that the k-th loaded row became
\* or was merged into
Home(rows, k) ==
  LET acc == LoadDedup(SubSeq(rows, 1, k - 1),
                       [deduped |-> <<>>, seenByName |-> <<>>, del |-> {}])
      matchIdx == MatchIdx(rows[k], acc.deduped, acc.seenByName)
  IN IF ~Truthy(NameKey(rows[k])) \/ matchIdx = 0
     THEN Len(acc.deduped) + 1 ELSE matchIdx

\* one normalized name is the other followed by a space and more
FirstNameOf(a, b) ==
  LET x == Trim(Lower(a.name))
      y == Trim(Lower(b.name))
  IN Truthy(x) /\ Len(y) > Len(x) /\ SubSeq(y, 1, Len(x) + 1) = x \o <<32>>

\* C19: the load-time dedup never puts two rows into one record when their
\* normalized names are equal and both have a company and the companies
\* differ, or both have a role and the roles differ.
SameNameHardNegativeKept ==
  call.fn = "loaded" =>
    \A i, j \in 1..Len(call.rows) :
      (/\ i < j
       /\ Trim(Lower(call.rows[i].name)) = Trim(Lower(call.rows[j].name))
       /\ \/ Differ(call.rows[i].company, call.rows[j].company)
          \/ Differ(call.rows[i].role, call.rows[j].role))
        => Home(call.rows, i) # Home(call.rows, j)

\* C20: the load-time dedup never puts a first-name-only row and a
\* full-name row into one record when both have a company and the
\* companies differ, nor when they have the same company and both have a
\* role and the roles differ.
PartialNameHardNegativeKept ==
  call.fn = "loaded" =>
    \A i, j \in 1..Len(call.rows) :
      (/\ FirstNameOf(call.rows[i], call.rows[j])
       /\ \/ Differ(call.rows[i].company, call.rows[j].company)
          \/ /\ Truthy(Trim(Lower(call.rows[i].company)))
             /\ Trim(Lower(call.rows[i].company))
                  = Trim(Lower(call.rows[j].company))
             /\ Differ(call.rows[i].role, call.rows[j].role))
        => Home(call.rows, i) # Home(call.rows, j)

\* two texts are both present and equal once trimmed and in lower case
Same(a, b) == Truthy(Trim(Lower(a))) /\ Trim(Lower(a)) = Trim(Lower(b))

ScoreOf(card, description) ==
  CardScore(card, Trim(Lower(description)),
            extractMeaningfulWords(description))

\* the scores the records of the history have against a description
HistoryScores(description) ==
  {ScoreOf(store.historyCards[i], description) :
     i \in 1..Len(store.historyCards)}

\* C22: a recall names a record only if that record scores at least 15
\* against the description, and names none when no record scores 15.
MatchScoresEnough ==
  call.fn = "recall" =>
    /\ Truthy(call.result) =>
         \E i \in 1..Len(store.historyCards) :
           /\ store.historyCards[i].name = call.result
           /\ ScoreOf(store.historyCards[i], call.said) >= MatchAtLeast
    /\ (\A sc \in HistoryScores(call.said) : sc < MatchAtLeast) =>
         call.result = <<>>

\* a recall named nobody although a record matched the description a little
WeakMatchNotNamed ==
  /\ call.fn = "recall"
  /\ call.result = <<>>
  /\ \E sc \in HistoryScores(call.said) : sc > 0 /\ sc < MatchAtLeast

\* the best score a record of the history has against a description
TopScore(description) ==
  CHOOSE sc \in HistoryScores(description) \cup {0} :
    \A other \in HistoryScores(description) : other <= sc

\* the score of the record of the history that has the name
ScoreOfName(name, description) ==
  IF \E i \in 1..Len(store.historyCards) : store.historyCards[i].name = name
  THEN ScoreOf(store.historyCards[
                 CHOOSE i \in 1..Len(store.historyCards) :
                   store.historyCards[i].name = name], description)
  ELSE 0

\* C23: while a match is shown, a recall on the longer description names a
\* different record only if the best score is more than 1.3 times the score
\* the shown record has against the longer description.
MatchStable ==
  [][(/\ call'.fn = "recall"
      /\ Truthy(call.voiceMatch)
      /\ Truthy(call'.result)
      /\ call'.result # call.voiceMatch)
     => 10 * TopScore(call'.said)
          > SwitchTenths * ScoreOfName(call.voiceMatch, call'.said)]_vars

\* C27: the label of a segment is 'contact' exactly when more contact
\* patterns than user patterns match its text, 'user' exactly when more user
\* patterns than contact patterns match, and 'unknown' exactly when as many
\* of the one as of the other match, none of either included; it is the
\* label of every call on that text, and labelling changes nothing else.
SpeakerByStrictMajority ==
  [][call'.fn = "attributed" =>
       LET contacts == PatternScore(CONTACT_PATTERNS, call.text)
           users == PatternScore(USER_PATTERNS, call.text)
       IN /\ call'.text = call.text
          /\ (call'.speakerLabel = "contact") = (contacts > users)
          /\ (call'.speakerLabel = "user") = (users > contacts)
          /\ (call'.speakerLabel = "unknown") = (users = contacts)
          /\ call'.speakerLabel = attributeSpeaker(call'.text)
          /\ UNCHANGED <<store, deletedCardIds, recon, dedup, ext, env, log>>
    ]_vars

\* a segment in which one contact pattern and one user pattern match was
\* labelled
SpeakerTie ==
  /\ call.fn = "attributed"
  /\ PatternScore(CONTACT_PATTERNS, call.text) = 1
  /\ PatternScore(USER_PATTERNS, call.text) = 1
  /\ call.speakerLabel = "unknown"

\* the ids, in input order, of the contacts that satisfy Holds
HoldersOf(contacts, Holds(_)) ==
  LET held == SelectSeq(contacts, Holds)
  IN [i \in 1..Len(held) |-> held[i].id]

\* the groups of a type whose card ids are `ids`
GroupsOf(groups, type, ids) ==
  {i \in 1..Len(groups) : groups[i].type = type /\ groups[i].cardIds = ids}

\* C28: the deterministic groups, when they are built (for more than 5
\* contacts), hold for every company (case ignored, none ignored), every
\* category (other than 'other') and every session id (none ignored) that
\* two or more contacts share exactly one group of type 'company',
\* 'category' or 'event', with the ids of the holders in input order and
\* their number as count; they hold no other group, and none for no contact.
GroupPerSharedKey ==
  (call.fn = "grouped" /\ Len(call.contacts) \notin 1..GroupAbove) =>
    LET contacts == call.contacts
        groups == call.groups
        Expected(type, Keyed(_), Key(_)) ==
          {HoldersOf(contacts, LAMBDA c : Keyed(c) /\ Key(c) = Key(k)) :
             k \in {contacts[i] : i \in {j \in 1..Len(contacts) :
                                            Keyed(contacts[j])}}}
        Right(type, Keyed(_), Key(_)) ==
          /\ \A ids \in Expected(type, Keyed, Key) :
               Cardinality(GroupsOf(groups, type, ids))
                 = IF Len(ids) >= 2 THEN 1 ELSE 0
          /\ \A i \in 1..Len(groups) :
               groups[i].type = type =>
                 /\ groups[i].cardIds \in Expected(type, Keyed, Key)
                 /\ groups[i].count = Len(groups[i].cardIds)
    IN /\ Right("company", LAMBDA c : Truthy(c.company),
                LAMBDA c : Lower(c.company))
       /\ Right("category", LAMBDA c : c.category # "other",
                LAMBDA c : c.category)
       /\ Right("event", LAMBDA c : c.sessionId # 0,
                LAMBDA c : c.sessionId)
       /\ \A i \in 1..Len(groups) :
            groups[i].type \in {"company", "category", "event"}

\* C24: a call to an oracle that is in flight is over after a while, whether
\* the oracle answers or not: the guard of the extraction (pending), of the
\* reconciliation (isReconciling) and of the dedup (isDeduping) is released.
UnansweredCallReleased ==
  /\ ext.pending ~> ~ext.pending
  /\ recon.isReconciling ~> ~recon.isReconciling
  /\ dedup.isDeduping ~> ~dedup.isDeduping

\* C25: a call to an oracle that fails leaves the Active Record, the History
\* and the deleted-ids set as they are and releases the guard of its kind.
FailedCallChangesNothing ==
  [][(ExtractNull \/ ReconcileFailed \/ DedupFailed) =>
       /\ store' = store
       /\ deletedCardIds' = deletedCardIds
       /\ ExtractNull => ~ext'.pending
       /\ ReconcileFailed => ~recon'.isReconciling
       /\ DedupFailed => ~dedup'.isDeduping]_vars

\* a reconciliation was asked for during the session and failed: the guard
\* is released and the count of reconciled characters is still 0
ReconcileHasFailed ==
  /\ store.isListening
  /\ env.reconciles = 1
  /\ store.currentTranscript >= ReconcileMinChars
  /\ Len(store.historyCards) > 0
  /\ ~recon.isReconciling /\ ~recon.call.on
  /\ recon.lastCharCount = 0

\* C26: a reconciliation that waits on the fallback timer when the session
\* ends is carried out: at the end of the session it is asked for or still
\* waits, and when its timer fires after the end it is asked for.
PendingReconcileFlushed ==
  [][/\ (store.isListening /\ ~store'.isListening
          /\ recon.timerRef = "armed") =>
         (recon'.call.on \/ recon'.timerRef = "armed")
     /\ (ReconcileTimer /\ ~store.isListening) => recon'.call.on]_vars

\* C30: while no session is listening there is no Active Record.
NoActiveRecordWhenIdle == ~store.isListening => store.activeCard = NoCard

\* C29: no upsert of a card or of one of its action items is issued for an
\* id that is in the deleted-ids set.
TombstonedNeverWritten ==
  \A write \in call.wrote : write.cardId \notin deletedCardIds


\* C36: a step whose handler calls mergeCards once, on two present ids (the
\* same id twice included), leaves the target present and not in the
\* deleted-ids set, leaves every record other than the source and the target
\* as it was, and changes the Active Record only if it is the source or the
\* target.
MergeKeepsTarget ==
  [][(/\ Len(log') = 1
      /\ log'[1].op = "merge" /\ log'[1].branch = "mergeCards"
      /\ MergeIds(log'[1]) \subseteq PresentIds(store))
       => LET s == log'[1].ids[1]
              t == log'[1].ids[2]
          IN /\ t \in PresentIds(store')
             /\ t \notin deletedCardIds'
             /\ \A id \in PresentIds(store) \ {s, t} :
                  CardOf(store', id) = CardOf(store, id)
             /\ store.activeCard.id \notin {s, t} =>
                  store'.activeCard = store.activeCard]_vars


\* C38: every record that has a name has the contact URL that
\* generateLinkedInUrl gives for its present name and company.
UrlFollowsIdentity ==
  \A i \in 1..Len(AllCards(store)) :
    LET c == AllCards(store)[i]
    IN Truthy(c.name) => c.linkedInUrl = generateLinkedInUrl(c.name, c.company)


\* the records reconcile() would send: the Active Record and the named
\* History Records of the session or of the day
Reconcilable(st) ==
  st.activeCard # NoCard
  \/ \E i \in 1..Len(st.historyCards) :
       /\ Truthy(st.historyCards[i].name)
       /\ (st.historyCards[i].sessionId = st.sessionId
           \/ st.historyCards[i].createdAt = env.today)

\* C31: when an utterance is added to the transcript of a listening session
\* that has a record to send and 20 characters or more, then after the step
\* a reconciliation is in flight or the fallback timer is pending; it is in
\* flight when the transcript is 500 characters or more ahead of the last
\* reconciliation.
NewTextReconciled ==
  [][(/\ store'.currentTranscript > store.currentTranscript
      /\ store'.isListening /\ store'.sessionId # 0
      /\ Reconcilable(store')
      /\ store'.currentTranscript >= ReconcileMinChars)
       => /\ recon'.call.on \/ recon'.timerRef = "armed"
          /\ store'.currentTranscript - recon.lastCharCount >= ReconcileEvery
               => recon'.call.on]_vars


\* length of the transcript of the current person, as the page effect takes it
PersonTranscript ==
  IF store.activeCard # NoCard
  THEN (IF store.currentTranscript > store.currentCardStartIndex
        THEN store.currentTranscript - store.currentCardStartIndex ELSE 0)
  ELSE store.currentTranscript

\* the page effect, when it runs, calls extractEntities
ExtractionDue == ExtractEffect(World, FALSE).ext # ext

\* C32: in a listening session, when the transcript of the current person is
\* 30 characters or more, an extraction attempt is due or the last attempt
\* was made at a length of that transcript, less than 30 characters ago.
NewTextExtracted ==
  (store.isListening /\ PersonTranscript >= ExtractEvery) =>
    \/ ExtractionDue
    \/ /\ ext.lastTranscriptLength <= PersonTranscript
       /\ PersonTranscript - ext.lastTranscriptLength < ExtractEvery


\* C33: after a session has ended, when the last pending timer of the dedup
\* fires with 2 or more named History Records, no pass was in flight when
\* the session ended and runDedup has neither started a pass nor met one in
\* flight since, a pass over the History is started.
DedupAfterSessionEnd ==
  [][(/\ ~store.isListening /\ ~dedup.prevListening
      /\ dedup.timers = 1 /\ dedup'.timers = 0
      /\ ~env.deduped /\ ~dedup.isDeduping
      /\ Len(SelectSeq(store.historyCards, Named)) >= 2)
       => dedup'.isDeduping]_vars

\* C34: at most one call of each kind is outstanding: while a call to the
\* Extraction Oracle, to /api/reconcile or to /api/dedup is in flight, no
\* step (a trigger of the same kind among them) issues another one in its
\* place, and the guard of the kind stays set as long as the call is out.
OneCallPerKind ==
  [][/\ ext'.call.on => ext'.pending
     /\ recon'.call.on => recon'.isReconciling
     /\ dedup'.call.phase # "idle" => dedup'.isDeduping
     /\ (ext.call.on /\ ext'.call.on) => ext'.call = ext.call
     /\ (recon.call.on /\ recon'.call.on) => recon'.call = recon.call
     /\ (dedup.call.phase # "idle" /\ dedup'.call.phase # "idle")
          => /\ dedup'.call.ids = dedup.call.ids
             /\ dedup'.call.namedCount = dedup.call.namedCount]_vars

\* the transcript has grown by the reconcile threshold while a
\* reconciliation sent at a shorter transcript is still out: the subscriber
\* has called reconcile() with the call in flight
TriggerInFlight ==
  /\ recon.call.on
  /\ store.isListening
  /\ recon.call.tlen < store.currentTranscript
  /\ store.currentTranscript - recon.lastCharCount >= ReconcileEvery

HistoryIds(st) == {st.historyCards[i].id : i \in 1..Len(st.historyCards)}

\* C35: a record of the History is still in the History after every step,
\* unless the step's handler merged it as the source of a merge.
HistoryLeftOnlyByMerge ==
  [][\A id \in HistoryIds(store) :
       \/ id \in HistoryIds(store')
       \/ \E k \in 1..Len(log') :
            log'[k].op = "merge" /\ log'[k].ids[1] = id]_vars

\* C37: while voice search is showing, a final result whose utterance holds
\* no recall phrase dismisses it (isVoiceSearching = false, searchQuery = '');
\* whenever it is showing, the 3 s timer of the last recall phrase is pending,
\* and its firing dismisses it; voice search is not entered while there is an
\* Active Record.
VoiceSearchDismissed ==
  [][/\ (/\ call.isVoiceSearching
         /\ call'.finals = call.finals + 1
         /\ ~detectVoiceQuery(call'.said).isQuery)
          => (~call'.isVoiceSearching /\ call'.searchQuery = <<>>)
     /\ call'.isVoiceSearching => call'.voiceQueryTimer
     /\ (call.voiceQueryTimer /\ ~call'.voiceQueryTimer)
          => (~call'.isVoiceSearching /\ call'.searchQuery = <<>>)
     /\ (~call.isVoiceSearching /\ call'.isVoiceSearching)
          => (store.activeCard = NoCard /\ store'.activeCard = NoCard)]_vars

\* the significant terms of an action item
KeyTerms(text) == {getKeyWords(text)[i] : i \in 1..Len(getKeyWords(text))}

\* two items share at least half of the terms of the one with fewer terms
SharesHalf(a, b) ==
  LET least == IF Cardinality(KeyTerms(a)) < Cardinality(KeyTerms(b))
               THEN Cardinality(KeyTerms(a)) ELSE Cardinality(KeyTerms(b))
  IN least > 0 /\ 2 * Cardinality(KeyTerms(a) \cap KeyTerms(b)) >= least

\* C39: when the answer of the Extraction Oracle is applied to the Active
\* Record it has (HasActive), every action item the step appends has a text
\* that is not empty, and no item the record held before the step shares at
\* least half of its significant terms with it.
AppendedItemIsNew ==
  [][(/\ ext.call.on /\ ~ext'.call.on
      /\ store.activeCard # NoCard
      /\ store'.activeCard.id = store.activeCard.id)
       => LET old == store.activeCard.actionItems
              new == store'.activeCard.actionItems
          IN \A k \in (Len(old) + 1)..Len(new) :
               /\ Len(Trim(new[k])) > 0
               /\ \A j \in 1..Len(old) : ~SharesHalf(new[k], old[j])]_vars

\* C40: the action items a record holds are still held, in their places,
\* after every step that keeps the record: updateActiveCard, addActionItem
\* and the updates of a reconciliation remove or overwrite none.
ActionItemsKept ==
  [][\A id \in PresentIds(store) \cap PresentIds(store') :
       LET old == CardOf(store, id).actionItems
           new == CardOf(store', id).actionItems
       IN /\ Len(new) >= Len(old)
          /\ \A j \in 1..Len(old) : new[j] = old[j]]_vars

====
